---- MODULE Spec2Model ----
(***************************************************************************)
(* Habit tracker: the habit objects (src/src/data_model/habit.py), their   *)
(* completions (src/src/data_model/completion.py) and the analytics        *)
(* service (src/src/analytics/analytics_service.py).                       *)
(*                                                                         *)
(* A datetime is the integer  ordinal * 24 + hour,  where ordinal is       *)
(* Python's date.toordinal() (proleptic Gregorian, 0001-01-01 = 1).        *)
(* A Completion is a record [timestamp, notes, mood_score]; None is the    *)
(* string "None" for notes and the empty sequence for mood_score.          *)
(*                                                                         *)
(* The habit manager (src/src/managers/habit_manager.py) works on the      *)
(* habits and completions tables of the SQLite database                    *)
(* (src/src/storage/db.py); a table is the sequence of its rows in         *)
(* insertion order, so that a row's AUTOINCREMENT id is its index.         *)
(*                                                                         *)
(* Several HabitManager objects may work on one database file.  Every      *)
(* method of DatabaseHandler opens its own connection and runs one         *)
(* statement, so a manager's call is a sequence of steps, one for each     *)
(* call into SQLite (execute, fetch, commit), and the steps of different   *)
(* managers interleave.  The connections use the rollback journal and the  *)
(* busy timeout of sqlite3.connect: a SELECT holds a read lock from        *)
(* execute to the end of its fetch, an INSERT holds the write lock up to   *)
(* its commit, and a commit needs every read lock of another connection    *)
(* to be gone.                                                             *)
(***************************************************************************)
EXTENDS Integers, Sequences, FiniteSets, TLC

VARIABLES
    habits,   \* the habit objects in memory, as the list handed to the analytics
    call,     \* the last operation called, its arguments and what it returned
    now,      \* datetime.now()
    db_habits,        \* the rows of table habits
    db_completions,   \* the rows of table completions
    current_user_id,  \* HabitManager.current_user_id
    managers,         \* the HabitManagers that share the database, each with
                      \* the position and the local variables of its
                      \* check_off_habit call
    utc_offset,       \* the hours the local time of the process is ahead of
                      \* UTC: datetime.now() is local, CURRENT_TIMESTAMP is UTC
    caller_lists      \* the habits whose completion list is a list object the
                      \* caller of set_completion_records still holds

vars == <<habits, call, now, db_habits, db_completions, current_user_id, managers,
          utc_offset, caller_lists>>

\* the database and the managers' sessions
dbvars == <<db_habits, db_completions, current_user_id, managers>>

\* the time zone of the process and the lists shared with callers
envvars == <<utc_offset, caller_lists>>

-----------------------------------------------------------------------------
(* Bounds of the model *)

\* longest completion list of a habit in the streak specification
MaxLen == 3
\* longest completion list of a habit in the due-status specification
MaxDueLen == 2
\* longest list of habits handed to an aggregate
MaxHabits == 2
\* most rows of table habits in the manager specification
MaxRows == 1
\* the most completions of the habit whose runs of days are examined
MaxRunLen == 7

-----------------------------------------------------------------------------
(* Calendar arithmetic of Python's datetime module *)

HoursPerDay == 24

DateTime(ordinal, hour) == ordinal * HoursPerDay + hour

\* datetime.date(): the calendar date (as an ordinal) of a datetime
DateOf(ts) == ts \div HoursPerDay

\* datetime - timedelta(days=n)
MinusDays(ts, n) == ts - n * HoursPerDay

\* ordinal of January 1st of a year
Jan1(year) ==
    LET y == year - 1
    IN  y * 365 + (y \div 4) - (y \div 100) + (y \div 400) + 1

Years == 2018 .. 2026

\* the Gregorian year an ordinal falls in
YearOf(ordinal) == CHOOSE y \in Years : Jan1(y) <= ordinal /\ ordinal < Jan1(y + 1)

\* ordinal of the Monday that starts ISO week 1 of a year
IsoWeek1Monday(year) ==
    LET firstday     == Jan1(year)
        firstweekday == (firstday + 6) % 7
        week1monday  == firstday - firstweekday
    IN  IF firstweekday > 3 THEN week1monday + 7 ELSE week1monday

\* date.isocalendar() of an ordinal: <<ISO year, ISO week, ISO weekday>>
IsoCalendarOfDate(today) ==
    LET year  == YearOf(today)
        week  == (today - IsoWeek1Monday(year)) \div 7
        day   == (today - IsoWeek1Monday(year)) % 7
    IN  IF week < 0
        THEN <<year - 1,
               ((today - IsoWeek1Monday(year - 1)) \div 7) + 1,
               ((today - IsoWeek1Monday(year - 1)) % 7) + 1>>
        ELSE IF week >= 52 /\ today >= IsoWeek1Monday(year + 1)
        THEN <<year + 1, 1, day + 1>>
        ELSE <<year, week + 1, day + 1>>

\* the dates the model computes ISO calendars of: 2020-12-01 .. 2021-01-31
\* (2020 has 53 ISO weeks) and 2023-11-01 .. 2024-01-31
CalendarDates == (737760 .. 737821) \cup (738825 .. 738916)

\* IsoCalendarOfDate, tabulated once over CalendarDates
IsoTable == [d \in CalendarDates |-> IsoCalendarOfDate(d)]

\* datetime.isocalendar()
isocalendar(ts) == IsoTable[DateOf(ts)]

\* the (ISO year, ISO week) pair of a datetime
IsoWeekOf(ts) == <<isocalendar(ts)[1], isocalendar(ts)[2]>>

-----------------------------------------------------------------------------
(* Input domains *)

\* 2023-12-30 (Sat, 2023-W52), 2023-12-31 (Sun, 2023-W52),
\* 2024-01-01 (Mon, 2024-W01), 2024-01-02 (Tue, 2024-W01),
\* 2024-01-08 (Mon, 2024-W02)
Days == {738884, 738885, 738886, 738887, 738893}

Hours == {9, 18}

Timestamps == {DateTime(d, h) : d \in Days, h \in Hours}

\* reference dates handed to is_due_on and calculate_current_streak
RefTimes == {DateTime(d, 12) : d \in Days}

\* days around the end of a year of 53 ISO weeks:
\* 2020-12-27 (Sun, 2020-W52), 2020-12-28 (Mon, 2020-W53),
\* 2021-01-03 (Sun, 2020-W53), 2021-01-04 (Mon, 2021-W01)
LongYearDays == {737786, 737787, 737793, 737794}

LongYearTimestamps == {DateTime(d, h) : d \in LongYearDays, h \in Hours}

LongYearRefTimes == {DateTime(d, 12) : d \in LongYearDays}

-----------------------------------------------------------------------------
(* Completion and habit objects *)

DAILY == "daily"
WEEKLY == "weekly"

\* Completion(timestamp, notes, mood_score) once constructed
Completion(timestamp, notes, mood_score) ==
    [timestamp |-> timestamp, notes |-> notes, mood_score |-> mood_score]

\* DailyHabit(...) / WeeklyHabit(...) followed by set_completion_records, as
\* HabitFactory.create_habit_from_db builds a habit
Habit(habit_id, name, periodicity, created_date, is_active, completions) ==
    [habit_id |-> habit_id, name |-> name, periodicity |-> periodicity,
     created_date |-> created_date, is_active |-> is_active,
     completion_records |-> completions]

\* BaseHabit.get_completion_records: a copy of the stored list
get_completion_records(habit) == habit.completion_records

\* DailyIsDueOn without its is_active test
DailyIsDueOn_IgnoresActive(habit, target_date) ==
    ~(\E i \in 1 .. Len(habit.completion_records) :
        DateOf(habit.completion_records[i].timestamp) = DateOf(target_date))

\* DailyHabit.is_due_on
DailyIsDueOn(habit, target_date) ==
    IF ~habit.is_active
    THEN FALSE
    ELSE ~(\E i \in 1 .. Len(habit.completion_records) :
             DateOf(habit.completion_records[i].timestamp) = DateOf(target_date))

\* WeeklyIsDueOn comparing calendar dates where it should compare ISO weeks
WeeklyIsDueOn_SameDateOnly(habit, target_date) ==
    IF ~habit.is_active
    THEN FALSE
    ELSE ~(\E i \in 1 .. Len(habit.completion_records) :
             DateOf(habit.completion_records[i].timestamp) = DateOf(target_date))

\* WeeklyHabit.is_due_on
WeeklyIsDueOn(habit, target_date) ==
    IF ~habit.is_active
    THEN FALSE
    ELSE ~(\E i \in 1 .. Len(habit.completion_records) :
             /\ isocalendar(habit.completion_records[i].timestamp)[1]
                  = isocalendar(target_date)[1]
             /\ isocalendar(habit.completion_records[i].timestamp)[2]
                  = isocalendar(target_date)[2])

\* habit.is_due_on(target_date), dispatched on the habit's class
is_due_on(habit, target_date) ==
    IF habit.periodicity = DAILY
    THEN DailyIsDueOn(habit, target_date)
    ELSE WeeklyIsDueOn(habit, target_date)

\* BaseHabit.get_last_completion_date: <<>> for None, else the latest timestamp
get_last_completion_date(habit) ==
    IF habit.completion_records = <<>> THEN <<>>
    ELSE LET stamps == {habit.completion_records[i].timestamp :
                          i \in 1 .. Len(habit.completion_records)}
         IN  <<CHOOSE t \in stamps : \A u \in stamps : u <= t>>

-----------------------------------------------------------------------------
(* sorted(..., key=lambda x: x.timestamp): a stable sort *)

RECURSIVE InsertDesc(_, _)
InsertDesc(s, x) ==
    IF s = <<>> THEN <<x>>
    ELSE IF Head(s).timestamp >= x.timestamp
         THEN <<Head(s)>> \o InsertDesc(Tail(s), x)
         ELSE <<x>> \o s

\* SortDesc handing the records back in the order it got them
SortDesc_KeepsOrder(s) == s

RECURSIVE SortDesc(_)
\* sorted(records, key=timestamp, reverse=True)
SortDesc(s) ==
    IF s = <<>> THEN <<>>
    ELSE InsertDesc(SortDesc(SubSeq(s, 1, Len(s) - 1)), s[Len(s)])

RECURSIVE InsertAsc(_, _)
InsertAsc(s, x) ==
    IF s = <<>> THEN <<x>>
    ELSE IF Head(s).timestamp <= x.timestamp
         THEN <<Head(s)>> \o InsertAsc(Tail(s), x)
         ELSE <<x>> \o s

RECURSIVE SortAsc(_)
\* sorted(records, key=timestamp)
SortAsc(s) ==
    IF s = <<>> THEN <<>>
    ELSE InsertAsc(SortAsc(SubSeq(s, 1, Len(s) - 1)), s[Len(s)])

-----------------------------------------------------------------------------
(* AnalyticsService.calculate_current_streak *)

RECURSIVE DailyCurrentLoop_OnCursorDayOnly(_, _, _, _)
\* DailyCurrentLoop counting a completion only when it is on the cursor day
DailyCurrentLoop_OnCursorDayOnly(completions, i, streak_count, current_date) ==
    IF i > Len(completions) THEN streak_count
    ELSE IF DateOf(completions[i].timestamp) = DateOf(current_date)
         THEN DailyCurrentLoop_OnCursorDayOnly(completions, i + 1, streak_count + 1,
                               MinusDays(completions[i].timestamp, 1))
         ELSE streak_count

RECURSIVE DailyCurrentLoop(_, _, _, _)
\* the loop over the completions, newest first, of a daily habit:
\* i is the loop index, current_date the cursor
DailyCurrentLoop(completions, i, streak_count, current_date) ==
    IF i > Len(completions) THEN streak_count
    ELSE IF DateOf(completions[i].timestamp) <= DateOf(current_date)
         THEN DailyCurrentLoop(completions, i + 1, streak_count + 1,
                               MinusDays(completions[i].timestamp, 1))
         ELSE streak_count

\* WeeklyCurrentMatch without the step from week 1 to week 52 of the year before
WeeklyCurrentMatch_NoYearStep(comp_year, comp_week, current_year, current_week) ==
    \/ (comp_year = current_year /\ comp_week = current_week)
    \/ (comp_year = current_year /\ comp_week = current_week - 1)

\* the test of the weekly loop: the completion is in the cursor week, in the
\* week before it in the same year, or in week 52 of the year before week 1
WeeklyCurrentMatch(comp_year, comp_week, current_year, current_week) ==
    \/ (comp_year = current_year /\ comp_week = current_week)
    \/ (comp_year = current_year /\ comp_week = current_week - 1)
    \/ (comp_year = current_year - 1 /\ comp_week = 52 /\ current_week = 1)

RECURSIVE WeeklyCurrentLoop_RollsToWeek53(_, _, _, _, _)
\* WeeklyCurrentLoop moving its cursor from week 1 to week 53 of the year before
WeeklyCurrentLoop_RollsToWeek53(completions, i, streak_count, current_year, current_week) ==
    IF i > Len(completions) THEN streak_count
    ELSE LET comp_year == isocalendar(completions[i].timestamp)[1]
             comp_week == isocalendar(completions[i].timestamp)[2]
         IN  IF WeeklyCurrentMatch(comp_year, comp_week, current_year, current_week)
             THEN IF current_week - 1 = 0
                  THEN WeeklyCurrentLoop_RollsToWeek53(completions, i + 1,
                                         streak_count + 1, current_year - 1, 53)
                  ELSE WeeklyCurrentLoop_RollsToWeek53(completions, i + 1,
                                         streak_count + 1, current_year, current_week - 1)
             ELSE streak_count

RECURSIVE WeeklyCurrentLoop(_, _, _, _, _)
\* the loop over the completions, newest first, of a weekly habit
WeeklyCurrentLoop(completions, i, streak_count, current_year, current_week) ==
    IF i > Len(completions) THEN streak_count
    ELSE LET comp_year == isocalendar(completions[i].timestamp)[1]
             comp_week == isocalendar(completions[i].timestamp)[2]
         IN  IF WeeklyCurrentMatch(comp_year, comp_week, current_year, current_week)
             THEN IF current_week - 1 = 0
                  THEN WeeklyCurrentLoop(completions, i + 1, streak_count + 1,
                                         current_year - 1, 52)
                  ELSE WeeklyCurrentLoop(completions, i + 1, streak_count + 1,
                                         current_year, current_week - 1)
             ELSE streak_count

\* calculate_current_streak(habit, as_of_date); as_of is <<>> for None and
\* <<t>> for a date, clock is datetime.now()
calculate_current_streak(habit, as_of, clock) ==
    LET as_of_date  == IF as_of = <<>> THEN clock ELSE as_of[1]
        completions == SortDesc(get_completion_records(habit))
    IN  IF get_completion_records(habit) = <<>> THEN 0
        ELSE IF habit.periodicity = DAILY
        THEN DailyCurrentLoop(completions, 1, 0, as_of_date)
        ELSE WeeklyCurrentLoop(completions, 1, 0,
                               isocalendar(as_of_date)[1], isocalendar(as_of_date)[2])

-----------------------------------------------------------------------------
(* AnalyticsService.calculate_longest_streak *)

Max(a, b) == IF a >= b THEN a ELSE b

RECURSIVE InsertInt(_, _)
InsertInt(s, x) ==
    IF s = <<>> THEN <<x>>
    ELSE IF Head(s) <= x THEN <<Head(s)>> \o InsertInt(Tail(s), x) ELSE <<x>> \o s

RECURSIVE SortInts(_)
\* dates.sort()
SortInts(s) ==
    IF s = <<>> THEN <<>>
    ELSE InsertInt(SortInts(SubSeq(s, 1, Len(s) - 1)), s[Len(s)])

RECURSIVE DailyLongestLoop_ResetsOnDuplicate(_, _, _, _)
\* DailyLongestLoop with a plain else: a second completion of one day starts
\* a new run
DailyLongestLoop_ResetsOnDuplicate(dates, i, longest_streak, current_streak) ==
    IF i > Len(dates) THEN longest_streak
    ELSE IF dates[i] - dates[i - 1] = 1
         THEN DailyLongestLoop_ResetsOnDuplicate(dates, i + 1,
                               Max(longest_streak, current_streak + 1),
                               current_streak + 1)
         ELSE DailyLongestLoop_ResetsOnDuplicate(dates, i + 1, longest_streak, 1)

RECURSIVE DailyLongestLoop(_, _, _, _)
\* for i in range(1, len(dates)); i is 1-based here, so it starts at 2
DailyLongestLoop(dates, i, longest_streak, current_streak) ==
    IF i > Len(dates) THEN longest_streak
    ELSE IF dates[i] - dates[i - 1] = 1
         THEN DailyLongestLoop(dates, i + 1,
                               Max(longest_streak, current_streak + 1),
                               current_streak + 1)
         ELSE IF dates[i] # dates[i - 1]
         THEN DailyLongestLoop(dates, i + 1, longest_streak, 1)
         ELSE DailyLongestLoop(dates, i + 1, longest_streak, current_streak)

\* _calculate_daily_longest_streak(completions)
DailyLongestStreak(completions) ==
    IF completions = <<>> THEN 0
    ELSE LET dates == SortInts([i \in 1 .. Len(completions) |->
                                   DateOf(completions[i].timestamp)])
         IN  DailyLongestLoop(dates, 2, 1, 1)

\* tuple order of (year, week) pairs
WeekLess(a, b) == a[1] < b[1] \/ (a[1] = b[1] /\ a[2] < b[2])

RECURSIVE SortedWeeks(_)
\* sorted(weeks) of a set of (year, week) pairs
SortedWeeks(S) ==
    IF S = {} THEN <<>>
    ELSE LET m == CHOOSE x \in S : \A y \in S : y = x \/ WeekLess(x, y)
         IN  <<m>> \o SortedWeeks(S \ {m})

\* WeeklyLongestConsecutive without the step from (Y, 52) to (Y+1, 1)
WeeklyLongestConsecutive_NoYearStep(prev_year, prev_week, current_year, current_week) ==
    current_year = prev_year /\ current_week = prev_week + 1

\* the test of the weekly scan: weeks[i] directly follows weeks[i - 1]
WeeklyLongestConsecutive(prev_year, prev_week, current_year, current_week) ==
    \/ (current_year = prev_year /\ current_week = prev_week + 1)
    \/ (current_year = prev_year + 1 /\ current_week = 1 /\ prev_week = 52)

RECURSIVE WeeklyLongestLoop(_, _, _, _)
WeeklyLongestLoop(weeks, i, longest_streak, current_streak) ==
    IF i > Len(weeks) THEN longest_streak
    ELSE IF WeeklyLongestConsecutive(weeks[i - 1][1], weeks[i - 1][2],
                                     weeks[i][1], weeks[i][2])
         THEN WeeklyLongestLoop(weeks, i + 1,
                                Max(longest_streak, current_streak + 1),
                                current_streak + 1)
         ELSE WeeklyLongestLoop(weeks, i + 1, longest_streak, 1)

\* WeeklyLongestStreak counting the steps between weeks instead of the weeks
WeeklyLongestStreak_CountsSteps(completions) ==
    IF completions = <<>> THEN 0
    ELSE LET weeks == SortedWeeks({IsoWeekOf(completions[i].timestamp) :
                                     i \in 1 .. Len(completions)})
         IN  WeeklyLongestLoop(weeks, 2, 0, 0)

\* _calculate_weekly_longest_streak(completions)
WeeklyLongestStreak(completions) ==
    IF completions = <<>> THEN 0
    ELSE LET weeks == SortedWeeks({IsoWeekOf(completions[i].timestamp) :
                                     i \in 1 .. Len(completions)})
         IN  WeeklyLongestLoop(weeks, 2, 1, 1)

\* calculate_longest_streak(habit)
calculate_longest_streak(habit) ==
    LET completions == SortAsc(get_completion_records(habit))
    IN  IF completions = <<>> THEN 0
        ELSE IF habit.periodicity = DAILY
        THEN DailyLongestStreak(completions)
        ELSE WeeklyLongestStreak(completions)

-----------------------------------------------------------------------------
(* State machine: habit objects and the calls made on them *)

BoundedSeq(S, n) == UNION {[1 .. k -> S] : k \in 0 .. n}

\* completion lists as storage or a caller hands them over: any order,
\* duplicates within a period allowed
CompletionLists(n) ==
    BoundedSeq({Completion(t, "None", <<>>) : t \in Timestamps}, n)

\* 2023-12-30 08:00 and 2024-01-01 08:00
CreatedDates == {DateTime(738884, 8), DateTime(738886, 8)}

\* 2024-01-08 20:00, later than every completion of the input domain
ClockStart == DateTime(738893, 20)

NoCall == [op |-> "init", index |-> 0, arg |-> <<>>, result |-> <<>>]

\* current_user_id = None
NoUser == 0

\* DatabaseHandler.init_database on a new file and HabitManager.__init__:
\* empty tables, nobody logged in
HabitManagerInit ==
    /\ db_habits = <<>>
    /\ db_completions = <<>>
    /\ current_user_id = NoUser
    /\ managers = <<>>

\* StoredAfterSorted when the calculator sorts the stored list itself
StoredAfterSorted_InPlace(habit, sorted_copy) == sorted_copy

\* the stored completion list of a habit after a calculator sorted the copy it
\* got from get_completion_records: sorted() builds a new list
StoredAfterSorted(habit, sorted_copy) == habit.completion_records

\* habit.activate()
Activate(i) ==
    /\ habits' = [habits EXCEPT ![i].is_active = TRUE]
    /\ call' = [op |-> "activate", index |-> i, arg |-> <<>>, result |-> <<>>]
    /\ UNCHANGED <<now, dbvars, envvars>>

\* habit.deactivate()
Deactivate(i) ==
    /\ habits' = [habits EXCEPT ![i].is_active = FALSE]
    /\ call' = [op |-> "deactivate", index |-> i, arg |-> <<>>, result |-> <<>>]
    /\ UNCHANGED <<now, dbvars, envvars>>

\* habit.is_due_on(target_date)
IsDueOn(i, target_date) ==
    /\ call' = [op |-> "is_due_on", index |-> i, arg |-> target_date,
                result |-> is_due_on(habits[i], target_date)]
    /\ UNCHANGED <<habits, now, dbvars, envvars>>

\* AnalyticsService.calculate_current_streak(habit, as_of)
CalculateCurrentStreak(i, as_of) ==
    /\ call' = [op |-> "calculate_current_streak", index |-> i, arg |-> as_of,
                result |-> calculate_current_streak(habits[i], as_of, now)]
    /\ habits' = [habits EXCEPT ![i].completion_records =
                     StoredAfterSorted(habits[i],
                                       SortDesc(get_completion_records(habits[i])))]
    /\ UNCHANGED <<now, dbvars, envvars>>

\* AnalyticsService.calculate_longest_streak(habit)
CalculateLongestStreak(i) ==
    /\ call' = [op |-> "calculate_longest_streak", index |-> i, arg |-> <<>>,
                result |-> calculate_longest_streak(habits[i])]
    /\ habits' = [habits EXCEPT ![i].completion_records =
                     StoredAfterSorted(habits[i],
                                       SortAsc(get_completion_records(habits[i])))]
    /\ UNCHANGED <<now, dbvars, envvars>>

\* as-of arguments: None or a reference date
AsOfArgs == {<<>>} \cup {<<t>> : t \in RefTimes}

(* Streak calculators on one habit, daily or weekly, with any completion list *)
Init ==
    /\ \E p \in {DAILY, WEEKLY}, cs \in CompletionLists(MaxLen) :
         habits = <<Habit(1, "h1", p, DateTime(738884, 8), TRUE, cs)>>
    /\ call = NoCall
    /\ now = ClockStart
    /\ HabitManagerInit
    /\ utc_offset = 0
    /\ caller_lists = {}

Next ==
    \/ \E as_of \in AsOfArgs : CalculateCurrentStreak(1, as_of)
    \/ CalculateLongestStreak(1)

Spec == Init /\ [][Next]_vars

\* 2024-01-01 .. 2024-01-08, eight consecutive days
RunDays == 738886 .. 738893

RECURSIVE Total(_, _)
\* the number of completions of the days from  d  on
Total(count, d) == IF d \notin RunDays THEN 0 ELSE count[d] + Total(count, d + 1)

\* how many completions each day has: none, one (09:00) or two (09:00, 18:00)
RunCounts == {count \in [RunDays -> 0 .. 2] : Total(count, 738886) <= MaxRunLen}

RECURSIVE CompletionsOfDays(_, _)
\* the completions of the days from  d  on, oldest first
CompletionsOfDays(count, d) ==
    IF d \notin RunDays THEN <<>>
    ELSE SubSeq(<<Completion(DateTime(d, 9), "None", <<>>),
                  Completion(DateTime(d, 18), "None", <<>>)>>, 1, count[d])
           \o CompletionsOfDays(count, d + 1)

\* the orders a completion list comes in: oldest first, newest first (as
\* get_completions_for_habit loads it), or neither (every second completion,
\* then the others)
RunOrders == {"oldest first", "newest first", "mixed"}

Ordered(cs, order) ==
    LET n == Len(cs)
        h == (n + 1) \div 2
    IN  [i \in 1 .. n |->
           IF order = "oldest first" THEN cs[i]
           ELSE IF order = "newest first" THEN cs[n + 1 - i]
           ELSE IF i <= h THEN cs[2 * i - 1] ELSE cs[2 * (i - h)]]

\* as-of arguments: None or noon of one of the days
RunAsOfArgs == {<<>>} \cup {<<DateTime(d, 12)>> : d \in RunDays}

(* Streak calculators on one daily habit with up to MaxRunLen completions  *)
(* on eight consecutive days, up to two on a day                            *)
InitRuns ==
    /\ \E count \in RunCounts, order \in RunOrders :
         habits = <<Habit(1, "h1", DAILY, DateTime(738886, 8), TRUE,
                          Ordered(CompletionsOfDays(count, 738886), order))>>
    /\ call = NoCall
    /\ now = ClockStart
    /\ HabitManagerInit
    /\ utc_offset = 0
    /\ caller_lists = {}

NextRuns ==
    \/ \E as_of \in RunAsOfArgs : CalculateCurrentStreak(1, as_of)
    \/ CalculateLongestStreak(1)

SpecRuns == InitRuns /\ [][NextRuns]_vars

(* Streak calculators on one habit whose completions lie around the end of *)
(* 2020, a year of 53 ISO weeks                                             *)
InitLongYear ==
    /\ \E p \in {DAILY, WEEKLY},
          cs \in BoundedSeq({Completion(t, "None", <<>>) : t \in LongYearTimestamps},
                            MaxLen) :
         habits = <<Habit(1, "h1", p, DateTime(737786, 8), TRUE, cs)>>
    /\ call = NoCall
    /\ now = ClockStart
    /\ HabitManagerInit
    /\ utc_offset = 0
    /\ caller_lists = {}

NextLongYear ==
    \/ \E as_of \in {<<>>} \cup {<<t>> : t \in LongYearRefTimes} :
         CalculateCurrentStreak(1, as_of)
    \/ CalculateLongestStreak(1)

SpecLongYear == InitLongYear /\ [][NextLongYear]_vars

\* a periodicity that is neither Periodicity.DAILY nor Periodicity.WEEKLY:
\* BaseHabit.__init__ stores whatever a subclass hands it
UnsupportedPeriodicity == "monthly"

(* Streak calculators on one habit of an unsupported periodicity *)
InitUnsupported ==
    /\ \E cs \in CompletionLists(MaxLen) :
         habits = <<Habit(1, "h1", UnsupportedPeriodicity, DateTime(738884, 8), TRUE, cs)>>
    /\ call = NoCall
    /\ now = ClockStart
    /\ HabitManagerInit
    /\ utc_offset = 0
    /\ caller_lists = {}

SpecUnsupported == InitUnsupported /\ [][Next]_vars

(* Due status of one habit, with activation and deactivation *)
InitDue ==
    /\ \E p \in {DAILY, WEEKLY}, c \in CreatedDates, a \in BOOLEAN,
          cs \in CompletionLists(MaxDueLen) :
         habits = <<Habit(1, "h1", p, c, a, cs)>>
    /\ call = NoCall
    /\ now = ClockStart
    /\ HabitManagerInit
    /\ utc_offset = 0
    /\ caller_lists = {}

NextDue ==
    \/ \E t \in RefTimes : IsDueOn(1, t)
    \/ Activate(1)
    \/ Deactivate(1)

SpecDue == InitDue /\ [][NextDue]_vars

\* habit.get_last_completion_date()
GetLastCompletionDate(i) ==
    /\ call' = [op |-> "get_last_completion_date", index |-> i, arg |-> <<>>,
                result |-> get_last_completion_date(habits[i])]
    /\ UNCHANGED <<habits, now, dbvars, envvars>>

(* Everything that reads the completion list of one habit, whose completions *)
(* come in any order                                                         *)
\* 2023-12-31 (Sun, 2023-W52), 2024-01-01 (Mon, 2024-W01),
\* 2024-01-08 (Mon, 2024-W02)
OrderDays == {738885, 738886, 738893}

OrderTimestamps == {DateTime(d, h) : d \in OrderDays, h \in Hours}

OrderRefTimes == {DateTime(d, 12) : d \in OrderDays}

InitOrder ==
    /\ \E p \in {DAILY, WEEKLY},
          cs \in BoundedSeq({Completion(t, "None", <<>>) : t \in OrderTimestamps},
                            MaxLen) :
         habits = <<Habit(1, "h1", p, DateTime(738884, 8), TRUE, cs)>>
    /\ call = NoCall
    /\ now = ClockStart
    /\ HabitManagerInit
    /\ utc_offset = 0
    /\ caller_lists = {}

NextOrder ==
    \/ \E as_of \in {<<>>} \cup {<<t>> : t \in OrderRefTimes} :
         CalculateCurrentStreak(1, as_of)
    \/ CalculateLongestStreak(1)
    \/ \E t \in OrderRefTimes : IsDueOn(1, t)
    \/ GetLastCompletionDate(1)

SpecOrder == InitOrder /\ [][NextOrder]_vars

-----------------------------------------------------------------------------
(* Aggregates of AnalyticsService over a list of habit objects *)

\* get_habits_by_periodicity(habits, periodicity)
get_habits_by_periodicity(hs, periodicity) ==
    SelectSeq(hs, LAMBDA h : h.periodicity = periodicity)

RECURSIVE MaxIndex_KeepsLast(_, _, _)
\* MaxIndex moving on to a later item of equal streak length
MaxIndex_KeepsLast(streak_data, i, best) ==
    IF i > Len(streak_data) THEN best
    ELSE IF streak_data[i].streak_length >= streak_data[best].streak_length
         THEN MaxIndex_KeepsLast(streak_data, i + 1, i)
         ELSE MaxIndex_KeepsLast(streak_data, i + 1, best)

RECURSIVE MaxIndex(_, _, _)
\* max(streak_data, key=...): the scan keeps the first item unless a later
\* one is strictly greater
MaxIndex(streak_data, i, best) ==
    IF i > Len(streak_data) THEN best
    ELSE IF streak_data[i].streak_length > streak_data[best].streak_length
         THEN MaxIndex(streak_data, i + 1, i)
         ELSE MaxIndex(streak_data, i + 1, best)

\* get_overall_longest_streak answering an empty list with streak length -1
get_overall_longest_streak_EmptyIsMinusOne(hs) ==
    IF hs = <<>>
    THEN [habit_name |-> "None", streak_length |-> -1, periodicity |-> "None"]
    ELSE LET streak_data == [i \in 1 .. Len(hs) |->
                               [habit |-> hs[i],
                                streak_length |-> calculate_longest_streak(hs[i])]]
             max_streak  == streak_data[MaxIndex(streak_data, 2, 1)]
         IN  [habit_name    |-> max_streak.habit.name,
              streak_length |-> max_streak.streak_length,
              periodicity   |-> max_streak.habit.periodicity,
              habit_id      |-> max_streak.habit.habit_id]

\* get_overall_longest_streak(habits)
get_overall_longest_streak(hs) ==
    IF hs = <<>>
    THEN [habit_name |-> "None", streak_length |-> 0, periodicity |-> "None"]
    ELSE LET streak_data == [i \in 1 .. Len(hs) |->
                               [habit |-> hs[i],
                                streak_length |-> calculate_longest_streak(hs[i])]]
             max_streak  == streak_data[MaxIndex(streak_data, 2, 1)]
         IN  [habit_name    |-> max_streak.habit.name,
              streak_length |-> max_streak.streak_length,
              periodicity   |-> max_streak.habit.periodicity,
              habit_id      |-> max_streak.habit.habit_id]

\* is_inactive taking a habit that was never completed for an active one
is_inactive_NeverCompletedIsActive(habit, cutoff_date) ==
    LET last_completion == get_last_completion_date(habit)
    IN  IF last_completion = <<>> THEN FALSE
        ELSE last_completion[1] < cutoff_date

\* is_inactive(habit) inside get_inactive_habits
is_inactive(habit, cutoff_date) ==
    LET last_completion == get_last_completion_date(habit)
    IN  IF last_completion = <<>> THEN TRUE
        ELSE last_completion[1] < cutoff_date

\* get_inactive_habits(habits, months)
get_inactive_habits(hs, months, clock) ==
    LET cutoff_date == MinusDays(clock, months * 30)
    IN  SelectSeq(hs, LAMBDA h : is_inactive(h, cutoff_date))

\* create_streak_summary(habit) inside get_habits_streak_summary
create_streak_summary(habit, clock) ==
    [habit_id         |-> habit.habit_id,
     habit_name       |-> habit.name,
     periodicity      |-> habit.periodicity,
     current_streak   |-> calculate_current_streak(habit, <<>>, clock),
     longest_streak   |-> calculate_longest_streak(habit),
     completion_count |-> Len(get_completion_records(habit)),
     last_completion  |-> get_last_completion_date(habit)]

\* get_habits_streak_summary(habits)
get_habits_streak_summary(hs, clock) ==
    [i \in 1 .. Len(hs) |-> create_streak_summary(hs[i], clock)]

\* the habits after each went through calculate_current_streak and
\* calculate_longest_streak
AfterCurrentStreak(hs) ==
    [i \in 1 .. Len(hs) |->
       [hs[i] EXCEPT !.completion_records =
          StoredAfterSorted(hs[i], SortDesc(get_completion_records(hs[i])))]]

AfterLongestStreak(hs) ==
    [i \in 1 .. Len(hs) |->
       [hs[i] EXCEPT !.completion_records =
          StoredAfterSorted(hs[i], SortAsc(get_completion_records(hs[i])))]]

GetHabitsByPeriodicity(periodicity) ==
    /\ call' = [op |-> "get_habits_by_periodicity", index |-> 0,
                arg |-> periodicity,
                result |-> get_habits_by_periodicity(habits, periodicity)]
    /\ UNCHANGED <<habits, now, dbvars, envvars>>

GetOverallLongestStreak ==
    /\ call' = [op |-> "get_overall_longest_streak", index |-> 0, arg |-> <<>>,
                result |-> get_overall_longest_streak(habits)]
    /\ habits' = AfterLongestStreak(habits)
    /\ UNCHANGED <<now, dbvars, envvars>>

GetInactiveHabits(months) ==
    /\ call' = [op |-> "get_inactive_habits", index |-> 0, arg |-> months,
                result |-> get_inactive_habits(habits, months, now)]
    /\ UNCHANGED <<habits, now, dbvars, envvars>>

GetHabitsStreakSummary ==
    /\ call' = [op |-> "get_habits_streak_summary", index |-> 0, arg |-> <<>>,
                result |-> get_habits_streak_summary(habits, now)]
    /\ habits' = AfterLongestStreak(AfterCurrentStreak(habits))
    /\ UNCHANGED <<now, dbvars, envvars>>

\* 2023-12-31 09:00 (2023-W52) and 2024-01-01 09:00 (2024-W01)
AggEarlier == Completion(DateTime(738885, 9), "None", <<>>)
AggLater   == Completion(DateTime(738886, 9), "None", <<>>)

\* 2023-11-02 09:00, sixty days before AggLater
AggOld == Completion(DateTime(738826, 9), "None", <<>>)

\* the completion lists of the habits handed to an aggregate: none, one,
\* two oldest first, two newest first, one sixty days old
AggLists ==
    {<<>>, <<AggLater>>, <<AggEarlier, AggLater>>, <<AggLater, AggEarlier>>, <<AggOld>>}

\* datetime.now() while the aggregates run: 2024-01-01 09:00, the moment of
\* the latest completion
AggClock == DateTime(738886, 9)

HabitNames == <<"h1", "h2", "h3", "h4">>

AggAsOfArgs == {<<>>, <<DateTime(738886, 12)>>}

MonthsArgs == {0, 1}

(* Calculators and aggregates on a list of up to MaxHabits habits *)
InitAgg ==
    /\ \E n \in 0 .. MaxHabits :
         \E ps \in [1 .. n -> {DAILY, WEEKLY}], as \in [1 .. n -> BOOLEAN],
            cs \in [1 .. n -> AggLists] :
           habits = [i \in 1 .. n |->
                       Habit(i, HabitNames[i], ps[i], DateTime(738884, 8), as[i], cs[i])]
    /\ call = NoCall
    /\ now = AggClock
    /\ HabitManagerInit
    /\ utc_offset = 0
    /\ caller_lists = {}

NextAgg ==
    \/ \E i \in 1 .. Len(habits), as_of \in AggAsOfArgs : CalculateCurrentStreak(i, as_of)
    \/ \E i \in 1 .. Len(habits) : CalculateLongestStreak(i)
    \/ \E p \in {DAILY, WEEKLY} : GetHabitsByPeriodicity(p)
    \/ GetOverallLongestStreak
    \/ \E m \in MonthsArgs : GetInactiveHabits(m)
    \/ GetHabitsStreakSummary

SpecAgg == InitAgg /\ [][NextAgg]_vars

-----------------------------------------------------------------------------
(* Completion.__init__ and the SQLite tables of DatabaseHandler *)

\* CompletionInitRaises accepting a mood score of 0
CompletionInitRaises_AcceptsZero(timestamp, notes, mood_score, clock) ==
    IF mood_score # <<>> /\ ~(0 <= mood_score[1] /\ mood_score[1] <= 10)
    THEN "ValueError"
    ELSE IF timestamp > clock THEN "ValueError" ELSE ""

\* Completion.__init__(timestamp, notes, mood_score): the exception its
\* validation raises, "" when it returns the completion
CompletionInitRaises(timestamp, notes, mood_score, clock) ==
    IF mood_score # <<>> /\ ~(1 <= mood_score[1] /\ mood_score[1] <= 10)
    THEN "ValueError"
    ELSE IF timestamp > clock THEN "ValueError" ELSE ""

\* adapt_datetime(dt): a datetime is stored as its isoformat() text
\* "YYYY-MM-DDTHH:MM:SS"; the model keeps the date and the time of the text
adapt_datetime(ts) == [date |-> DateOf(ts), time |-> ts % HoursPerDay]

\* convert_datetime(timestamp): datetime.fromisoformat of a stored text
fromisoformat(text) == DateTime(text.date, text.time)

\* the time zones the process may run in: UTC and America/Los_Angeles
\* (winter time), where the UTC date is often the next day
UtcOffsets == {0, -8}

\* the UTC time while the local clock shows  clock
utcnow(clock, offset) == clock - offset

\* DEFAULT CURRENT_TIMESTAMP: the text "YYYY-MM-DD HH:MM:SS" of the UTC time;
\* the model keeps the date and the time of the text
CURRENT_TIMESTAMP(utc_now) == [date |-> DateOf(utc_now), time |-> utc_now % HoursPerDay]

\* the rows of table users: two users registered with create_user
UserIds == {1, 2}

\* save_habit on a table without UNIQUE (user_id, name)
save_habit_NoUniqueNames(rows, user_id, name, periodicity, utc_now) ==
    IF user_id \notin UserIds
    THEN [raised |-> "IntegrityError", rows |-> rows, habit_id |-> 0]
    ELSE [raised |-> "", habit_id |-> Len(rows) + 1,
          rows |-> Append(rows, [habit_id    |-> Len(rows) + 1,
                                 user_id     |-> user_id,
                                 name        |-> name,
                                 periodicity |-> periodicity,
                                 created_at  |-> CURRENT_TIMESTAMP(utc_now),
                                 is_active   |-> TRUE])]

\* save_habit(user_id, name, periodicity): INSERT INTO habits, with the
\* foreign key on users and UNIQUE (user_id, name); created_at and is_active
\* take their column defaults, CURRENT_TIMESTAMP and TRUE
save_habit(rows, user_id, name, periodicity, utc_now) ==
    IF \/ user_id \notin UserIds
       \/ \E i \in 1 .. Len(rows) : rows[i].user_id = user_id /\ rows[i].name = name
    THEN [raised |-> "IntegrityError", rows |-> rows, habit_id |-> 0]
    ELSE [raised |-> "", habit_id |-> Len(rows) + 1,
          rows |-> Append(rows, [habit_id    |-> Len(rows) + 1,
                                 user_id     |-> user_id,
                                 name        |-> name,
                                 periodicity |-> periodicity,
                                 created_at  |-> CURRENT_TIMESTAMP(utc_now),
                                 is_active   |-> TRUE])]

\* get_habits_for_user(user_id, active_only): the lists the query may return.
\* ORDER BY created_at DESC leaves the order of rows created at the same
\* time open.
get_habits_for_user(rows, user_id, active_only) ==
    LET found == SelectSeq(rows, LAMBDA r : /\ r.user_id = user_id
                                            /\ (active_only => r.is_active))
        n     == Len(found)
    IN  {[k \in 1 .. n |-> found[q[k]]] :
           q \in {f \in [1 .. n -> 1 .. n] :
                    /\ \A a, b \in 1 .. n : a # b => f[a] # f[b]
                    /\ \A a, b \in 1 .. n :
                         a < b => fromisoformat(found[f[a]].created_at)
                                    >= fromisoformat(found[f[b]].created_at)}}

\* DatabaseHandler.get_habit_by_id(habit_id): <<>> for None, else <<row>>
db_get_habit_by_id(rows, habit_id) ==
    IF habit_id \in 1 .. Len(rows) THEN <<rows[habit_id]>> ELSE <<>>

\* db_delete_habit reporting success without touching the row
db_delete_habit_LeavesActive(rows, habit_id) ==
    IF habit_id \in 1 .. Len(rows)
    THEN [result |-> TRUE, rows |-> rows]
    ELSE [result |-> FALSE, rows |-> rows]

\* DatabaseHandler.delete_habit(habit_id): UPDATE habits SET is_active = FALSE
db_delete_habit(rows, habit_id) ==
    IF habit_id \in 1 .. Len(rows)
    THEN [result |-> TRUE, rows |-> [rows EXCEPT ![habit_id].is_active = FALSE]]
    ELSE [result |-> FALSE, rows |-> rows]

\* save_completion(habit_id, completion): INSERT INTO completions
save_completion(rows, habit_id, completion) ==
    Append(rows, [completion_id |-> Len(rows) + 1,
                  habit_id      |-> habit_id,
                  timestamp     |-> adapt_datetime(completion.timestamp),
                  notes         |-> completion.notes,
                  mood_score    |-> completion.mood_score])

\* get_completions_for_habit(habit_id): the rows of the habit, newest first,
\* each made a Completion again (which validates it against the clock)
get_completions_for_habit(rows, habit_id, clock) ==
    LET found  == SelectSeq(rows, LAMBDA r : r.habit_id = habit_id)
        loaded == [i \in 1 .. Len(found) |->
                     Completion(fromisoformat(found[i].timestamp),
                                found[i].notes, found[i].mood_score)]
    IN  IF \E i \in 1 .. Len(loaded) :
              CompletionInitRaises(loaded[i].timestamp, loaded[i].notes,
                                   loaded[i].mood_score, clock) # ""
        THEN [raised |-> "ValueError", completions |-> <<>>]
        ELSE [raised |-> "", completions |-> SortDesc(loaded)]

\* the first  limit  items of a list; <<>> (None) and <<0>> take them all,
\* as  if limit:  skips the LIMIT clause
Limited(items, limit) ==
    IF limit = <<>> \/ limit[1] = 0 \/ limit[1] >= Len(items)
    THEN items
    ELSE SubSeq(items, 1, limit[1])

\* get_completions_for_habit(habit_id, limit): the newest  limit  rows of
\* the habit, newest first, each made a Completion again
get_completions_for_habit_limit(rows, habit_id, limit, clock) ==
    LET found  == SelectSeq(rows, LAMBDA r : r.habit_id = habit_id)
        loaded == Limited(SortDesc([i \in 1 .. Len(found) |->
                             Completion(fromisoformat(found[i].timestamp),
                                        found[i].notes, found[i].mood_score)]),
                          limit)
    IN  IF \E i \in 1 .. Len(loaded) :
              CompletionInitRaises(loaded[i].timestamp, loaded[i].notes,
                                   loaded[i].mood_score, clock) # ""
        THEN [raised |-> "ValueError", completions |-> <<>>]
        ELSE [raised |-> "", completions |-> loaded]

\* get_completions_for_user(user_id) without a number of days: the lists the
\* query may return, each row of completions joined with the name and the
\* periodicity of its habit.  ORDER BY c.timestamp DESC leaves the order of
\* completions of the same moment open.
get_completions_for_user(habit_rows, completion_rows, user_id) ==
    LET found == SelectSeq(completion_rows,
                           LAMBDA c : habit_rows[c.habit_id].user_id = user_id)
        n     == Len(found)
        joined(c) == [completion_id |-> c.completion_id,
                      habit_id      |-> c.habit_id,
                      timestamp     |-> fromisoformat(c.timestamp),
                      notes         |-> c.notes,
                      mood_score    |-> c.mood_score,
                      habit_name    |-> habit_rows[c.habit_id].name,
                      periodicity   |-> habit_rows[c.habit_id].periodicity]
    IN  {[k \in 1 .. n |-> joined(found[q[k]])] :
           q \in {f \in Permutations(1 .. n) :
                    \A a, b \in 1 .. n :
                        a < b => fromisoformat(found[f[a]].timestamp)
                                   >= fromisoformat(found[f[b]].timestamp)}}

\* create_habit_from_db leaving the completions out of the habit object
create_habit_from_db_WithoutCompletions(data, completions) ==
    Habit(data.habit_id, data.name, data.periodicity,
          fromisoformat(data.created_at), data.is_active, <<>>)

\* HabitFactory.create_habit_from_db(data, completions)
create_habit_from_db(data, completions) ==
    Habit(data.habit_id, data.name, data.periodicity,
          fromisoformat(data.created_at), data.is_active, completions)

-----------------------------------------------------------------------------
(* HabitManager *)

\* what a call that returned / raised leaves in  call
Returned(op, index, arg, result) ==
    [op |-> op, index |-> index, arg |-> arg, result |-> result, raised |-> ""]

Raised(op, index, arg, exception) ==
    [op |-> op, index |-> index, arg |-> arg, result |-> <<>>, raised |-> exception]

RECURSIVE lstrip(_)
lstrip(name) ==
    IF name # <<>> /\ Head(name) = " " THEN lstrip(Tail(name)) ELSE name

RECURSIVE rstrip(_)
rstrip(name) ==
    IF name # <<>> /\ name[Len(name)] = " "
    THEN rstrip(SubSeq(name, 1, Len(name) - 1))
    ELSE name

\* strip leaving the blanks where they are
strip_KeepsBlanks(name) == name

\* str.strip() of a habit name; a name is the sequence of its characters
strip(name) == rstrip(lstrip(name))

\* get_habit_by_id without the test that the habit belongs to the current user
get_habit_by_id_AnyUser(habit_id) ==
    LET habit_data == db_get_habit_by_id(db_habits, habit_id)
    IN  IF habit_data = <<>> THEN [raised |-> "", habit |-> <<>>]
        ELSE LET completions == get_completions_for_habit(db_completions, habit_id, now)
             IN  IF completions.raised # ""
                 THEN [raised |-> completions.raised, habit |-> <<>>]
                 ELSE [raised |-> "",
                       habit |-> <<create_habit_from_db(habit_data[1],
                                                       completions.completions)>>]

\* HabitManager.get_habit_by_id(habit_id): <<>> for None, else <<habit>>
get_habit_by_id(habit_id) ==
    LET habit_data == db_get_habit_by_id(db_habits, habit_id)
    IN  IF habit_data = <<>> THEN [raised |-> "", habit |-> <<>>]
        ELSE IF habit_data[1].user_id # current_user_id
        THEN [raised |-> "", habit |-> <<>>]
        ELSE LET completions == get_completions_for_habit(db_completions, habit_id, now)
             IN  IF completions.raised # ""
                 THEN [raised |-> completions.raised, habit |-> <<>>]
                 ELSE [raised |-> "",
                       habit |-> <<create_habit_from_db(habit_data[1],
                                                       completions.completions)>>]

\* HabitManager.set_current_user(user_id)
SetCurrentUser(user_id) ==
    /\ current_user_id' = user_id
    /\ call' = Returned("set_current_user", 0, user_id, <<>>)
    /\ UNCHANGED <<habits, now, db_habits, db_completions, managers, envvars>>

\* HabitManager.create_habit(name, periodicity)
CreateHabit(name, periodicity) ==
    LET arg   == [name |-> name, periodicity |-> periodicity]
        saved == save_habit(db_habits, current_user_id, strip(name), periodicity,
                            utcnow(now, utc_offset))
    IN  /\ IF current_user_id = NoUser \/ name = <<>> \/ strip(name) = <<>>
           THEN /\ call' = Raised("create_habit", 0, arg, "ValueError")
                /\ UNCHANGED db_habits
           ELSE IF saved.raised # ""
           THEN /\ call' = Raised("create_habit", 0, arg, saved.raised)
                /\ UNCHANGED db_habits
           ELSE /\ db_habits' = saved.rows
                /\ call' = Returned("create_habit", saved.habit_id, arg,
                                    Habit(saved.habit_id, name, periodicity, now,
                                          TRUE, <<>>))
        /\ UNCHANGED <<habits, now, db_completions, current_user_id, managers, envvars>>

\* HabitManager.get_all_habits(active_only)
GetAllHabits(active_only) ==
    /\ IF current_user_id = NoUser
       THEN call' = Raised("get_all_habits", 0, active_only, "ValueError")
       ELSE \E habits_data \in get_habits_for_user(db_habits, current_user_id,
                                                   active_only) :
              LET loaded == [k \in 1 .. Len(habits_data) |->
                               get_completions_for_habit(db_completions,
                                                         habits_data[k].habit_id, now)]
              IN  IF \E k \in 1 .. Len(loaded) : loaded[k].raised # ""
                  THEN call' = Raised("get_all_habits", 0, active_only, "ValueError")
                  ELSE call' = Returned("get_all_habits", 0, active_only,
                                        [k \in 1 .. Len(habits_data) |->
                                           create_habit_from_db(habits_data[k],
                                                                loaded[k].completions)])
    /\ UNCHANGED <<habits, now, dbvars, envvars>>

\* HabitManager.delete_habit(habit_id)
DeleteHabit(habit_id) ==
    LET found   == get_habit_by_id(habit_id)
        deleted == db_delete_habit(db_habits, habit_id)
    IN  /\ IF found.raised # ""
           THEN /\ call' = Raised("delete_habit", habit_id, <<>>, found.raised)
                /\ UNCHANGED db_habits
           ELSE IF found.habit = <<>>
           THEN /\ call' = Returned("delete_habit", habit_id, <<>>, FALSE)
                /\ UNCHANGED db_habits
           ELSE /\ db_habits' = deleted.rows
                /\ call' = Returned("delete_habit", habit_id, <<>>, deleted.result)
        /\ UNCHANGED <<habits, now, db_completions, current_user_id, managers, envvars>>

\* HabitManager.check_off_habit(habit_id, notes, mood_score)
CheckOffHabit(habit_id, notes, mood_score) ==
    LET found == get_habit_by_id(habit_id)
        arg   == [notes |-> notes, mood_score |-> mood_score]
    IN  /\ IF found.raised # ""
           THEN /\ call' = Raised("check_off_habit", habit_id, arg, found.raised)
                /\ UNCHANGED db_completions
           ELSE IF found.habit = <<>> \/ ~found.habit[1].is_active
           THEN /\ call' = Returned("check_off_habit", habit_id, arg, FALSE)
                /\ UNCHANGED db_completions
           ELSE IF ~is_due_on(found.habit[1], now)
           THEN /\ call' = Returned("check_off_habit", habit_id, arg, FALSE)
                /\ UNCHANGED db_completions
           ELSE IF CompletionInitRaises(now, notes, mood_score, now) # ""
           THEN \* habit.check_off raises outside the try block
                /\ call' = Raised("check_off_habit", habit_id, arg,
                                  CompletionInitRaises(now, notes, mood_score, now))
                /\ UNCHANGED db_completions
           ELSE /\ db_completions' =
                      save_completion(db_completions, habit_id,
                                      Completion(now, notes, mood_score))
                /\ call' = Returned("check_off_habit", habit_id, arg, TRUE)
        /\ UNCHANGED <<habits, now, db_habits, current_user_id, managers, envvars>>

\* HabitManager.get_habit_by_id(habit_id) called by the user interface
GetHabitById(habit_id) ==
    LET found == get_habit_by_id(habit_id)
    IN  /\ IF found.raised # ""
           THEN call' = Raised("get_habit_by_id", habit_id, <<>>, found.raised)
           ELSE call' = Returned("get_habit_by_id", habit_id, <<>>, found.habit)
        /\ UNCHANGED <<habits, now, dbvars, envvars>>

\* HabitManager.get_habit_completions(habit_id, limit)
GetHabitCompletions(habit_id, limit) ==
    LET loaded == get_completions_for_habit_limit(db_completions, habit_id, limit, now)
    IN  /\ IF loaded.raised # ""
           THEN call' = Raised("get_habit_completions", habit_id, limit, loaded.raised)
           ELSE call' = Returned("get_habit_completions", habit_id, limit,
                                 loaded.completions)
        /\ UNCHANGED <<habits, now, dbvars, envvars>>

\* HabitManager.get_user_completions() without a number of days
GetUserCompletions ==
    /\ IF current_user_id = NoUser
       THEN call' = Returned("get_user_completions", 0, <<>>, <<>>)
       ELSE \E found \in get_completions_for_user(db_habits, db_completions,
                                                  current_user_id) :
              call' = Returned("get_user_completions", 0, <<>>, found)
    /\ UNCHANGED <<habits, now, dbvars, envvars>>

\* Completion(timestamp, notes, mood_score) called directly
NewCompletion(timestamp, notes, mood_score) ==
    LET arg == [timestamp |-> timestamp, notes |-> notes, mood_score |-> mood_score]
    IN  /\ IF CompletionInitRaises(timestamp, notes, mood_score, now) # ""
           THEN call' = Raised("Completion", 0, arg,
                               CompletionInitRaises(timestamp, notes, mood_score, now))
           ELSE call' = Returned("Completion", 0, arg,
                                 Completion(timestamp, notes, mood_score))
        /\ UNCHANGED <<habits, now, dbvars, envvars>>

\* the moments the clock shows while the manager is in use:
\* 2023-12-31 09:00 and 18:00 (Sun, 2023-W52), 2024-01-01 09:00 (Mon, 2024-W01)
ManagerClock == <<DateTime(738885, 9), DateTime(738885, 18), DateTime(738886, 9)>>

\* time passes: the clock moves on to its next moment
Tick ==
    /\ \E k \in 1 .. Len(ManagerClock) - 1 :
         now = ManagerClock[k] /\ now' = ManagerClock[k + 1]
    /\ call' = Returned("tick", 0, <<>>, <<>>)
    /\ UNCHANGED <<habits, dbvars, envvars>>

\* habit names typed by the user: empty, blank, plain, padded
ManagerNames == {<<>>, <<" ">>, <<"a">>, <<"a", " ">>}

\* notes and mood scores typed by the user; 11 is out of range
CheckOffArgs == {<<"good", <<10>>>>, <<"None", <<11>>>>}

\* notes and mood scores of a direct Completion call; 0 and 11 are out of range
NewCompletionArgs ==
    CheckOffArgs \cup {<<"None", <<>>>>, <<"good", <<1>>>>, <<"None", <<0>>>>}

(* The habit manager on a database of two users, the process running in   *)
(* one of the time zones  offsets                                          *)
InitManagerIn(offsets) ==
    /\ habits = <<>>
    /\ call = NoCall
    /\ now = ManagerClock[1]
    /\ HabitManagerInit
    /\ utc_offset \in offsets
    /\ caller_lists = {}

\* in any of the time zones
InitManager == InitManagerIn(UtcOffsets)

\* in America/Los_Angeles, where created_at differs from datetime.now()
InitManagerWest == InitManagerIn({-8})

NextManager ==
    \/ \E u \in UserIds \cup {NoUser} : SetCurrentUser(u)
    \/ \E name \in ManagerNames, p \in {DAILY, WEEKLY} :
         Len(db_habits) < MaxRows /\ CreateHabit(name, p)
    \/ \E active_only \in BOOLEAN : GetAllHabits(active_only)
    \/ \E habit_id \in 1 .. MaxRows + 1 : DeleteHabit(habit_id)
    \/ \E habit_id \in 1 .. MaxRows + 1, a \in CheckOffArgs :
         CheckOffHabit(habit_id, a[1], a[2])
    \/ \E a \in NewCompletionArgs : NewCompletion(ManagerClock[2], a[1], a[2])
    \/ Tick

SpecManager == InitManagerWest /\ [][NextManager]_vars

(* The operations of the manager that take a habit id or read the tables, *)
(* used by two users who each keep a daily habit of the same name          *)
NextIsolation ==
    \/ \E u \in UserIds \cup {NoUser} : SetCurrentUser(u)
    \/ CreateHabit(<<"a">>, DAILY) /\ Len(db_habits') <= MaxRows
    \/ \E active_only \in BOOLEAN : GetAllHabits(active_only)
    \/ \E habit_id \in 1 .. MaxRows + 1 : GetHabitById(habit_id)
    \/ \E habit_id \in 1 .. MaxRows + 1 : DeleteHabit(habit_id)
    \/ \E habit_id \in 1 .. MaxRows + 1 : CheckOffHabit(habit_id, "good", <<10>>)
    \/ \E habit_id \in 1 .. MaxRows + 1, limit \in {<<>>, <<1>>} :
         GetHabitCompletions(habit_id, limit)
    \/ GetUserCompletions
    \/ Tick

SpecIsolation == InitManager /\ [][NextIsolation]_vars

\* habit names typed by the users who share the database
SharedNames == ManagerNames \cup {<<"b">>}

(* Creating, listing and deleting habits by two users; the table takes one *)
(* row more than in the specification of the whole manager                 *)
NextNames ==
    \/ \E u \in UserIds \cup {NoUser} : SetCurrentUser(u)
    \/ \E name \in SharedNames, p \in {DAILY, WEEKLY} :
         CreateHabit(name, p) /\ Len(db_habits') <= MaxRows + 1
    \/ \E active_only \in BOOLEAN : GetAllHabits(active_only)
    \/ \E habit_id \in 1 .. MaxRows + 1 : DeleteHabit(habit_id)

SpecNames == InitManager /\ [][NextNames]_vars

\* check_off adding the completion to the list before it is validated
check_off_AppendsBeforeValidating(habit, notes, mood_score, clock) ==
    [raised     |-> CompletionInitRaises(clock, notes, mood_score, clock),
     completion |-> Completion(clock, notes, mood_score),
     habit      |-> [habit EXCEPT !.completion_records =
                        Append(@, Completion(clock, notes, mood_score))]]

\* BaseHabit.check_off(notes, mood_score): the exception Completion raises
\* ("" for none), the completion returned and the habit afterwards; the
\* completion is appended only after Completion(...) returned
check_off(habit, notes, mood_score, clock) ==
    IF CompletionInitRaises(clock, notes, mood_score, clock) # ""
    THEN [raised     |-> CompletionInitRaises(clock, notes, mood_score, clock),
          completion |-> <<>>,
          habit      |-> habit]
    ELSE [raised     |-> "",
          completion |-> Completion(clock, notes, mood_score),
          habit      |-> [habit EXCEPT !.completion_records =
                             Append(@, Completion(clock, notes, mood_score))]]

\* habit.check_off(notes, mood_score) on a habit object in memory
CheckOff(i, notes, mood_score) ==
    LET arg     == [notes |-> notes, mood_score |-> mood_score]
        checked == check_off(habits[i], notes, mood_score, now)
    IN  /\ IF checked.raised # ""
           THEN call' = Raised("check_off", i, arg, checked.raised)
           ELSE call' = Returned("check_off", i, arg, checked.completion)
        /\ habits' = [habits EXCEPT ![i] = checked.habit]
        /\ UNCHANGED <<now, dbvars, envvars>>

\* habit.set_completion_records(completions): the habit keeps the list
\* object it is handed, not a copy, in place of the list it had
SetCompletionRecords(i, completions) ==
    /\ habits' = [habits EXCEPT ![i].completion_records = completions]
    /\ caller_lists' = caller_lists \cup {i}
    /\ call' = Returned("set_completion_records", i, completions, <<>>)
    /\ UNCHANGED <<now, dbvars, utc_offset>>

\* habit.get_completion_records(): a copy of the list
GetCompletionRecords(i) ==
    /\ call' = Returned("get_completion_records", i, <<>>,
                        habits[i].completion_records)
    /\ UNCHANGED <<habits, now, dbvars, envvars>>

\* the caller of set_completion_records appends a completion to the list it
\* handed over: the records of the habit change without a call on the habit
CallerAppends(i, completion) ==
    /\ i \in caller_lists
    /\ habits' = [habits EXCEPT ![i].completion_records = Append(@, completion)]
    /\ call' = Returned("append", i, completion, <<>>)
    /\ UNCHANGED <<now, dbvars, envvars>>

\* the completions a caller has built by the moment  clock : Completion(t)
\* raises for a t later than the clock
CallerCompletions(clock) ==
    {Completion(ManagerClock[k], "None", <<>>) :
       k \in {j \in 1 .. Len(ManagerClock) : ManagerClock[j] <= clock}}

\* notes and mood scores of a check-off; 0 and 11 are out of range
CheckOffMoods == CheckOffArgs \cup {<<"None", <<0>>>>}

(* Check-offs: on a habit object in memory and through the manager, by one *)
(* user with one habit name, the process running in America/Los_Angeles;   *)
(* the completion list of the habit object is also replaced by its caller  *)
InitCheckOff ==
    /\ habits = <<Habit(1, "h1", DAILY, ManagerClock[1], TRUE, <<>>)>>
    /\ call = NoCall
    /\ now = ManagerClock[1]
    /\ HabitManagerInit
    /\ utc_offset = -8
    /\ caller_lists = {}

NextCheckOff ==
    \/ \E u \in {1, NoUser} : SetCurrentUser(u)
    \/ \E p \in {DAILY, WEEKLY} : CreateHabit(<<"a">>, p) /\ Len(db_habits') <= MaxRows
    \/ \E habit_id \in 1 .. MaxRows, a \in CheckOffMoods :
         CheckOffHabit(habit_id, a[1], a[2])
    \/ \E a \in CheckOffMoods :
         CheckOff(1, a[1], a[2]) /\ Len(habits'[1].completion_records) <= MaxDueLen
    \/ \E completions \in BoundedSeq(CallerCompletions(now), MaxDueLen) :
         SetCompletionRecords(1, completions)
    \/ GetCompletionRecords(1)
    \/ \E completion \in CallerCompletions(now) :
         CallerAppends(1, completion) /\ Len(habits'[1].completion_records) <= MaxDueLen
    \/ Tick

SpecCheckOff == InitCheckOff /\ [][NextCheckOff]_vars

-----------------------------------------------------------------------------
(* Two HabitManagers on one database, each inside check_off_habit *)

Managers == {1, 2}

\* a manager between two calls: who is logged in, and what its last
\* check_off_habit call was about, built and returned
Idle(user_id, habit_id, completion, result, raised) ==
    [pc |-> "idle", user_id |-> user_id, habit_id |-> habit_id,
     arg |-> <<>>, habit_data |-> <<>>, rows |-> <<>>, habit |-> <<>>,
     completion |-> completion, result |-> result, raised |-> raised]

\* check_off_habit of manager m has reached a return statement: the value
\* is on its way to the caller
Return(m, completion, result) ==
    /\ managers' = [managers EXCEPT ![m] =
                       [Idle(@.user_id, @.habit_id, completion, <<result>>, "")
                          EXCEPT !.pc = "returning"]]
    /\ UNCHANGED call

\* an exception leaves check_off_habit of manager m
Raise(m, exception) ==
    /\ managers' = [managers EXCEPT ![m] =
                       [Idle(@.user_id, @.habit_id, <<>>, <<>>, exception)
                          EXCEPT !.pc = "returning"]]
    /\ UNCHANGED call

\* the caller of manager m has the value or the exception of the call
ReturnToCaller(m) ==
    LET this == managers[m]
    IN  /\ this.pc = "returning"
        /\ managers' = [managers EXCEPT ![m].pc = "idle"]
        /\ IF this.raised # ""
           THEN call' = Raised("check_off_habit", this.habit_id,
                               [manager |-> m], this.raised)
           ELSE call' = Returned("check_off_habit", this.habit_id,
                                 [manager |-> m], this.result[1])
        /\ UNCHANGED <<habits, now, db_habits, db_completions, current_user_id, envvars>>

\* check_off_habit(habit_id, notes, mood_score) up to conn.execute of
\* DatabaseHandler.get_habit_by_id: the SELECT has stepped to the row of
\* the habit, if there is one
SelectHabitRow(m, habit_id, notes, mood_score) ==
    /\ managers[m].pc = "idle"
    /\ managers' = [managers EXCEPT ![m] =
                      [pc |-> "row_selected", user_id |-> @.user_id,
                       habit_id |-> habit_id,
                       arg |-> [notes |-> notes, mood_score |-> mood_score],
                       habit_data |-> db_get_habit_by_id(db_habits, habit_id),
                       rows |-> <<>>, habit |-> <<>>,
                       completion |-> <<>>, result |-> <<>>,
                       raised |-> ""]]
    /\ UNCHANGED <<habits, call, now, db_habits, db_completions, current_user_id,
                   envvars>>

\* fetchone() of DatabaseHandler.get_habit_by_id and the first statements of
\* HabitManager.get_habit_by_id: the SELECT is finished, the row is handed
\* over and its owner compared
ReadHabitRow(m) ==
    LET this == managers[m]
    IN  /\ this.pc = "row_selected"
        /\ IF this.habit_data = <<>> \/ this.habit_data[1].user_id # this.user_id
           THEN managers' = [managers EXCEPT ![m] =
                               [Idle(@.user_id, @.habit_id, <<>>, <<FALSE>>, "")
                                  EXCEPT !.pc = "returning"]]
           ELSE managers' = [managers EXCEPT ![m].pc = "row_read"]
        /\ UNCHANGED <<habits, call, now, db_habits, db_completions, current_user_id,
                       envvars>>

\* conn.execute of get_completions_for_habit, on a connection of its own:
\* the SELECT has found the rows of the habit and stepped to the first
SelectCompletions(m) ==
    LET this == managers[m]
    IN  /\ this.pc = "row_read"
        /\ managers' = [managers EXCEPT
                          ![m].pc = "completions_selected",
                          ![m].rows = SelectSeq(db_completions,
                                                LAMBDA r : r.habit_id = this.habit_id)]
        /\ UNCHANGED <<habits, call, now, db_habits, db_completions, current_user_id,
                       envvars>>

\* fetchall() of get_completions_for_habit and the rest of get_habit_by_id:
\* every row is made a Completion, under the clock as it is then, and the
\* habit object is built
ReadCompletions(m) ==
    LET this   == managers[m]
        loaded == get_completions_for_habit(this.rows, this.habit_id, now)
    IN  /\ this.pc = "completions_selected"
        /\ IF loaded.raised # ""
           THEN Raise(m, loaded.raised)
           ELSE /\ managers' = [managers EXCEPT
                                  ![m].pc = "loaded",
                                  ![m].rows = <<>>,
                                  ![m].habit = <<create_habit_from_db(this.habit_data[1],
                                                                     loaded.completions)>>]
                /\ UNCHANGED call
        /\ UNCHANGED <<habits, now, db_habits, db_completions, current_user_id, envvars>>

\* check_off_habit on the habit object it was handed: the tests on
\* is_active and on is_due_on(datetime.now())
TestDue(m) ==
    LET this == managers[m]
    IN  /\ this.pc = "loaded"
        /\ IF ~this.habit[1].is_active \/ ~is_due_on(this.habit[1], now)
           THEN Return(m, <<>>, FALSE)
           ELSE /\ managers' = [managers EXCEPT ![m].pc = "due"]
                /\ UNCHANGED call
        /\ UNCHANGED <<habits, now, db_habits, db_completions, current_user_id, envvars>>

\* habit.check_off(notes, mood_score) inside check_off_habit: the completion
\* is stamped with datetime.now() as it is read then
CheckOffLoaded(m) ==
    LET this    == managers[m]
        checked == check_off(this.habit[1], this.arg.notes, this.arg.mood_score, now)
    IN  /\ this.pc = "due"
        /\ IF checked.raised # ""
           THEN Raise(m, checked.raised)
           ELSE /\ managers' = [managers EXCEPT ![m].pc = "checked",
                                                ![m].habit = <<checked.habit>>,
                                                ![m].completion = <<checked.completion>>]
                /\ UNCHANGED call
        /\ UNCHANGED <<habits, now, db_habits, db_completions, current_user_id, envvars>>

\* a manager is between the INSERT and the commit of save_completion: its
\* connection holds the write lock of the database file
WriteLocked == \E m \in Managers : managers[m].pc = "inserted"

\* another manager than m is between conn.execute and the fetch of a SELECT
\* that found a row: its connection holds a read lock of the database file
\* (a SELECT that finds no row is finished by conn.execute and holds none)
ReadLocked(m) ==
    \E o \in Managers \ {m} :
        \/ managers[o].pc = "row_selected" /\ managers[o].habit_data # <<>>
        \/ managers[o].pc = "completions_selected" /\ managers[o].rows # <<>>

\* save_completion(habit_id, completion) up to its INSERT: the connection
\* takes the write lock; the row is in its transaction only, other
\* connections go on reading the table without it
InsertCompletion(m) ==
    /\ managers[m].pc = "checked"
    /\ ~WriteLocked
    /\ managers' = [managers EXCEPT ![m].pc = "inserted"]
    /\ UNCHANGED <<habits, call, now, db_habits, db_completions, current_user_id,
                   envvars>>

\* the INSERT of save_completion while another connection holds the write
\* lock for longer than the busy timeout of sqlite3.connect: the INSERT
\* raises OperationalError (database is locked), which check_off_habit
\* catches, prints, and answers with False
InsertLocked(m) ==
    /\ managers[m].pc = "checked"
    /\ WriteLocked
    /\ Return(m, <<>>, FALSE)
    /\ UNCHANGED <<habits, now, db_habits, db_completions, current_user_id, envvars>>

\* conn.commit() of save_completion once no other connection holds a read
\* lock: the row is in the table, the write lock is free; save_completion
\* returns and check_off_habit reaches return True
CommitCompletion(m) ==
    /\ managers[m].pc = "inserted"
    /\ ~ReadLocked(m)
    /\ db_completions' = save_completion(db_completions, managers[m].habit_id,
                                         managers[m].completion[1])
    /\ Return(m, managers[m].completion, TRUE)
    /\ UNCHANGED <<habits, now, db_habits, current_user_id, envvars>>

\* conn.commit() of save_completion while another connection holds a read
\* lock for longer than the busy timeout: the commit raises OperationalError
\* (database is locked), the with block of save_completion rolls the INSERT
\* back and frees the write lock; check_off_habit catches the exception,
\* prints it, and answers with False
CommitLocked(m) ==
    /\ managers[m].pc = "inserted"
    /\ ReadLocked(m)
    /\ Return(m, <<>>, FALSE)
    /\ UNCHANGED <<habits, now, db_habits, db_completions, current_user_id, envvars>>

\* time passes while the managers work
TickConcurrent ==
    /\ \E k \in 1 .. Len(ManagerClock) - 1 :
         now = ManagerClock[k] /\ now' = ManagerClock[k + 1]
    /\ UNCHANGED <<habits, call, dbvars, envvars>>

(* The database after user 1 created a habit at the first moment of the   *)
(* clock and possibly deleted it; two managers, both logged in as user 1  *)
InitConcurrent ==
    /\ habits = <<>>
    /\ call = NoCall
    /\ now = ManagerClock[1]
    /\ utc_offset \in UtcOffsets
    /\ \E p \in {DAILY, WEEKLY}, active \in BOOLEAN :
         db_habits = [save_habit(<<>>, 1, <<"a">>, p,
                                 utcnow(ManagerClock[1], utc_offset)).rows
                        EXCEPT ![1].is_active = active]
    /\ db_completions = <<>>
    /\ current_user_id = NoUser
    /\ managers = [m \in Managers |-> Idle(1, 0, <<>>, <<>>, "")]
    /\ caller_lists = {}

NextConcurrent ==
    \/ \E m \in Managers, habit_id \in 1 .. 2, a \in CheckOffArgs :
         SelectHabitRow(m, habit_id, a[1], a[2])
    \/ \E m \in Managers : ReadHabitRow(m)
    \/ \E m \in Managers : SelectCompletions(m)
    \/ \E m \in Managers : ReadCompletions(m)
    \/ \E m \in Managers : TestDue(m)
    \/ \E m \in Managers : CheckOffLoaded(m)
    \/ \E m \in Managers : InsertCompletion(m)
    \/ \E m \in Managers : InsertLocked(m)
    \/ \E m \in Managers : CommitCompletion(m)
    \/ \E m \in Managers : CommitLocked(m)
    \/ \E m \in Managers : ReturnToCaller(m)
    \/ TickConcurrent

SpecConcurrent == InitConcurrent /\ [][NextConcurrent]_vars

-----------------------------------------------------------------------------
(* Vocabulary of the properties *)

\* the habit the last call was made on
CalledHabit == habits[call.index]

\* the reference date the last calculate_current_streak call counted from
EffectiveAsOf == IF call.arg = <<>> THEN now ELSE call.arg[1]

\* calendar dates / ISO weeks that hold at least one completion of a habit
CompletionDates(habit) ==
    {DateOf(habit.completion_records[i].timestamp) :
       i \in 1 .. Len(habit.completion_records)}

CompletionWeeks(habit) ==
    {IsoWeekOf(habit.completion_records[i].timestamp) :
       i \in 1 .. Len(habit.completion_records)}

\* (year, week) order, lexicographic
WeekLeq(a, b) == a[1] < b[1] \/ (a[1] = b[1] /\ a[2] <= b[2])

SetMax(S) == CHOOSE x \in S : \A y \in S : y <= x

-----------------------------------------------------------------------------
(* C1 *)

\* the target period is not earlier than the creation period
NotBeforeCreation(habit, target) ==
    IF habit.periodicity = DAILY
    THEN DateOf(target) >= DateOf(habit.created_date)
    ELSE WeekLeq(IsoWeekOf(habit.created_date), IsoWeekOf(target))

\* no completion falls in the target period
NoCompletionInPeriod(habit, target) ==
    IF habit.periodicity = DAILY
    THEN DateOf(target) \notin CompletionDates(habit)
    ELSE IsoWeekOf(target) \notin CompletionWeeks(habit)

\* C1: is_due_on(target) is True iff the habit is active, the target period
\* is not earlier than the creation period, and no completion falls in the
\* target period (calendar date for daily, ISO (year, week) for weekly).
C1_DueIffActiveCreatedAndOpen ==
    call.op = "is_due_on" =>
        (call.result <=>
            /\ CalledHabit.is_active
            /\ NotBeforeCreation(CalledHabit, call.arg)
            /\ NoCompletionInPeriod(CalledHabit, call.arg))

-----------------------------------------------------------------------------
(* C2 *)

RECURSIVE BackwardDayWalk(_, _)
\* days counted walking back one day at a time from cursor, up to the first
\* day without a completion
BackwardDayWalk(dates, cursor) ==
    IF cursor \in dates THEN 1 + BackwardDayWalk(dates, cursor - 1) ELSE 0

\* C2: for a daily habit the current streak is the number of consecutive
\* calendar days, walking backward from the as-of date, that each hold a
\* completion; the walk stops at the first gap, so a completion separated by
\* empty days from the last counted day is not counted.  Stated for the
\* as-of dates that hold a completion, where the first counted day is the
\* as-of date itself.
C2_DailyCurrentIsBackwardWalk ==
    (/\ call.op = "calculate_current_streak"
     /\ CalledHabit.periodicity = DAILY
     /\ DateOf(EffectiveAsOf) \in CompletionDates(CalledHabit)) =>
        call.result = BackwardDayWalk(CompletionDates(CalledHabit),
                                      DateOf(EffectiveAsOf))

-----------------------------------------------------------------------------
(* C3 *)

\* the week before an ISO week as the claim counts it: week 1 of year Y is
\* preceded by week 52 of year Y - 1
WeekBefore(w) == IF w[2] = 1 THEN <<w[1] - 1, 52>> ELSE <<w[1], w[2] - 1>>

RECURSIVE BackwardWeekWalk(_, _)
BackwardWeekWalk(weeks, cursor) ==
    IF cursor \in weeks THEN 1 + BackwardWeekWalk(weeks, WeekBefore(cursor)) ELSE 0

\* C3: for a weekly habit the current streak is the number of consecutive
\* ISO weeks, walking backward from the as-of week, that each hold a
\* completion; a week counts once however many completions it holds and the
\* walk stops at the first week without one.  Stated for the as-of weeks
\* that hold a completion, where the first counted week is the as-of week.
C3_WeeklyCurrentIsBackwardWalk ==
    (/\ call.op = "calculate_current_streak"
     /\ CalledHabit.periodicity = WEEKLY
     /\ IsoWeekOf(EffectiveAsOf) \in CompletionWeeks(CalledHabit)) =>
        call.result = BackwardWeekWalk(CompletionWeeks(CalledHabit),
                                       IsoWeekOf(EffectiveAsOf))

-----------------------------------------------------------------------------
(* C4 *)

\* length of the longest run of consecutive calendar dates in a set of dates
LongestDateRun(dates) ==
    SetMax({k \in 1 .. Cardinality(dates) :
              \E d \in dates : \A j \in 0 .. k - 1 : d + j \in dates})

\* C4: for a daily habit with at least one completion the longest streak is
\* the length of the longest run of consecutive calendar dates among the
\* distinct completion dates: duplicates neither break nor extend a run and
\* a gap starts a new run.
C4_DailyLongestIsLongestRun ==
    (/\ call.op = "calculate_longest_streak"
     /\ CalledHabit.periodicity = DAILY
     /\ CalledHabit.completion_records # <<>>) =>
        call.result = LongestDateRun(CompletionDates(CalledHabit))

\* completions on 2024-01-01, 01-02, 01-03, 01-05, 01-06 and 01-07, two of
\* them on one day: two runs of three days with a gap between give 3, not 6
C4_Witness ==
    /\ call.op = "calculate_longest_streak"
    /\ CalledHabit.periodicity = DAILY
    /\ CompletionDates(CalledHabit) = {738886, 738887, 738888, 738890, 738891, 738892}
    /\ Len(CalledHabit.completion_records) = 7
    /\ call.result = 3

-----------------------------------------------------------------------------
(* C5 *)

\* b directly follows a: same year and next week number, or (Y, 52) then (Y+1, 1)
FollowsWeek(a, b) ==
    \/ (b[1] = a[1] /\ b[2] = a[2] + 1)
    \/ (a[2] = 52 /\ b[1] = a[1] + 1 /\ b[2] = 1)

\* R is a run of the keys K: apart from its earliest key, every key of R
\* directly follows a key of R and no key of K lies between the two
IsWeekRun(R, K) ==
    /\ R # {}
    /\ \A b \in R :
         \/ \A a \in R : WeekLeq(b, a)
         \/ \E a \in R :
              /\ FollowsWeek(a, b)
              /\ ~(\E c \in K : c # a /\ c # b /\ WeekLeq(a, c) /\ WeekLeq(c, b))

LongestWeekRun(K) ==
    SetMax({Cardinality(R) : R \in {X \in SUBSET K : IsWeekRun(X, K)}})

\* C5: for a weekly habit with at least one completion the longest streak is
\* the length of the longest run in the chronologically sorted distinct ISO
\* (year, week) keys, consecutive meaning same year and week + 1, or (Y, 52)
\* followed by (Y+1, 1); several completions in a week count as one period.
C5_WeeklyLongestIsLongestRun ==
    (/\ call.op = "calculate_longest_streak"
     /\ CalledHabit.periodicity = WEEKLY
     /\ CalledHabit.completion_records # <<>>) =>
        call.result = LongestWeekRun(CompletionWeeks(CalledHabit))

\* two completions in 2023-W52 and one in 2024-W01: a run of 2 over the year end
C5_Witness ==
    /\ call.op = "calculate_longest_streak"
    /\ CalledHabit.periodicity = WEEKLY
    /\ Len(CalledHabit.completion_records) = 3
    /\ CompletionWeeks(CalledHabit) = {<<2023, 52>>, <<2024, 1>>}
    /\ call.result = 2

-----------------------------------------------------------------------------
(* C6 *)

\* the habit with one more completion recorded at time t
WithCompletion(habit, t) ==
    [habit EXCEPT !.completion_records = Append(@, Completion(t, "None", <<>>))]

\* t is a further time of day on a calendar day that already holds a completion
FurtherTimeOnCompletedDay(habit, t) ==
    /\ DateOf(t) \in CompletionDates(habit)
    /\ \A i \in 1 .. Len(habit.completion_records) :
         habit.completion_records[i].timestamp # t

\* C6: for a daily habit several completions on one calendar day count once:
\* a further completion, at another time of day, on a day that already holds
\* one leaves calculate_current_streak unchanged for every as-of date.
C6_SameDayCompletionKeepsCurrentStreak ==
    (call.op = "calculate_current_streak" /\ CalledHabit.periodicity = DAILY) =>
        \A t \in Timestamps :
            FurtherTimeOnCompletedDay(CalledHabit, t) =>
                calculate_current_streak(WithCompletion(CalledHabit, t), call.arg, now)
                    = call.result

-----------------------------------------------------------------------------
(* C7 *)

\* the habit's only completions are one in week 52 of year y and one in
\* week 1 of year y + 1
OnlyWeek52AndWeek1(habit, y) ==
    /\ Len(habit.completion_records) = 2
    /\ CompletionWeeks(habit) = {<<y, 52>>, <<y + 1, 1>>}

\* C7: a weekly habit whose only completions are one in ISO week 52 of year
\* Y and one in ISO week 1 of Y+1 has current streak 2 as of any date inside
\* week 1 or week 2 of Y+1.
C7_YearBoundaryStreakIsTwo ==
    \A y \in Years :
        (/\ call.op = "calculate_current_streak"
         /\ CalledHabit.periodicity = WEEKLY
         /\ OnlyWeek52AndWeek1(CalledHabit, y)
         /\ IsoWeekOf(EffectiveAsOf) \in {<<y + 1, 1>>, <<y + 1, 2>>}) =>
            call.result = 2

\* completions in 2023-W52 and 2024-W01, streak asked as of a date in 2024-W02
C7_Witness ==
    /\ call.op = "calculate_current_streak"
    /\ CalledHabit.periodicity = WEEKLY
    /\ OnlyWeek52AndWeek1(CalledHabit, 2023)
    /\ call.arg # <<>>
    /\ IsoWeekOf(EffectiveAsOf) = <<2024, 2>>
    /\ call.result = 2

-----------------------------------------------------------------------------
(* C8 *)

CalculatorOps ==
    {"calculate_current_streak", "calculate_longest_streak",
     "get_habits_by_periodicity", "get_overall_longest_streak",
     "get_inactive_habits", "get_habits_streak_summary"}

\* C8: a call of a calculator or an aggregate leaves every input habit's
\* stored completion list (length, elements, order) and is_active flag as
\* they were, and the list of habits in its order.
C8_CalculatorsLeaveHabitsAlone ==
    [][call'.op \in CalculatorOps => habits' = habits]_vars

\* a calculator has run on a list of two habits, one of them inactive, whose
\* stored completions are neither all oldest first nor all newest first
C8_Witness ==
    /\ call.op \in CalculatorOps
    /\ Len(habits) = 2
    /\ \E i \in 1 .. 2 : ~habits[i].is_active
    /\ \E i \in 1 .. 2 : habits[i].completion_records = <<AggEarlier, AggLater>>
    /\ \E i \in 1 .. 2 : habits[i].completion_records = <<AggLater, AggEarlier>>


-----------------------------------------------------------------------------
(* C9 *)

\* C9: an inactive habit is never due, whatever its periodicity, the target
\* and its completions; deactivate() makes the habit inactive and only
\* activate() makes it active again.
C9_InactiveNeverDue ==
    /\ [](call.op = "is_due_on" /\ ~CalledHabit.is_active => call.result = FALSE)
    /\ [][/\ (call'.op = "deactivate" => ~habits'[call'.index].is_active)
          /\ \A i \in 1 .. Len(habits) :
               (~habits[i].is_active /\ habits'[i].is_active)
                   => (call'.op = "activate" /\ call'.index = i)]_vars

\* an inactive habit asked about a target period that holds no completion
C9_Witness ==
    /\ call.op = "is_due_on"
    /\ ~CalledHabit.is_active
    /\ NoCompletionInPeriod(CalledHabit, call.arg)
    /\ call.result = FALSE

-----------------------------------------------------------------------------
(* C10 *)

\* the target lies in the period that follows a period holding a completion
\* (the day after, or the ISO week of the date seven days earlier)
PreviousPeriodCompleted(habit, target) ==
    IF habit.periodicity = DAILY
    THEN DateOf(target) - 1 \in CompletionDates(habit)
    ELSE IsoWeekOf(MinusDays(target, 7)) \in CompletionWeeks(habit)

\* C10: an active habit with a completion in period P and none in the period
\* after P is not due on any target inside P and due on every target inside
\* the period that follows P.
C10_DueInFollowingPeriod ==
    (call.op = "is_due_on" /\ CalledHabit.is_active) =>
        /\ ~NoCompletionInPeriod(CalledHabit, call.arg) => call.result = FALSE
        /\ (/\ PreviousPeriodCompleted(CalledHabit, call.arg)
            /\ NoCompletionInPeriod(CalledHabit, call.arg)) => call.result = TRUE

\* a weekly habit completed in 2023-W52 only, asked about a date in 2024-W01
C10_Witness ==
    /\ call.op = "is_due_on"
    /\ CalledHabit.is_active
    /\ CalledHabit.periodicity = WEEKLY
    /\ CompletionWeeks(CalledHabit) = {<<2023, 52>>}
    /\ IsoWeekOf(call.arg) = <<2024, 1>>
    /\ call.result = TRUE

-----------------------------------------------------------------------------
(* C11 *)

StreakOps == {"calculate_current_streak", "calculate_longest_streak"}

\* C11: a habit with no completions has current streak 0 and longest streak
\* 0, for both periodicities and every as-of date; a habit with exactly one
\* completion has longest streak 1.
C11_BaseCases ==
    call.op \in StreakOps =>
        /\ CalledHabit.completion_records = <<>> => call.result = 0
        /\ (/\ call.op = "calculate_longest_streak"
            /\ Len(CalledHabit.completion_records) = 1) => call.result = 1

\* the longest streak of a weekly habit with one completion has been asked for
C11_Witness ==
    /\ call.op = "calculate_longest_streak"
    /\ CalledHabit.periodicity = WEEKLY
    /\ Len(CalledHabit.completion_records) = 1
    /\ call.result = 1

-----------------------------------------------------------------------------
(* C12 *)

\* the n periods that end with the period of the reference date: calendar
\* dates for a daily habit, ISO weeks for a weekly one
PeriodsEndingAt(periodicity, as_of_date, n) ==
    IF periodicity = DAILY
    THEN {DateOf(MinusDays(as_of_date, k)) : k \in 0 .. n - 1}
    ELSE {IsoWeekOf(MinusDays(as_of_date, 7 * k)) : k \in 0 .. n - 1}

\* the periods that hold a completion of the habit
CompletionPeriods(habit) ==
    IF habit.periodicity = DAILY THEN CompletionDates(habit) ELSE CompletionWeeks(habit)

\* exactly one completion in each of the n most recent consecutive periods
\* ending with the as-of period, and no other completion
OnePerRecentPeriod(habit, as_of_date) ==
    LET n == Len(habit.completion_records)
    IN  /\ n >= 1
        /\ Cardinality(CompletionPeriods(habit)) = n
        /\ CompletionPeriods(habit) = PeriodsEndingAt(habit.periodicity, as_of_date, n)

\* C12: when the completions are exactly one in each of the n most recent
\* consecutive periods ending with the as-of period (days for a daily habit,
\* ISO weeks for a weekly habit), calculate_current_streak returns n.
C12_OnePerPeriodGivesN ==
    (/\ call.op = "calculate_current_streak"
     /\ CalledHabit.periodicity \in {DAILY, WEEKLY}
     /\ OnePerRecentPeriod(CalledHabit, EffectiveAsOf))
        => call.result = Len(CalledHabit.completion_records)

-----------------------------------------------------------------------------
(* C13 *)

\* C13: a daily habit with exactly one completion, dated on the as-of date
\* or any number of days before it, has current streak 1.
C13_LoneOldCompletionCountsOne ==
    (/\ call.op = "calculate_current_streak"
     /\ CalledHabit.periodicity = DAILY
     /\ Len(CalledHabit.completion_records) = 1
     /\ DateOf(CalledHabit.completion_records[1].timestamp) <= DateOf(EffectiveAsOf))
        => call.result = 1

\* a lone completion seven days or more before the as-of date counted as 1
C13_Witness ==
    /\ call.op = "calculate_current_streak"
    /\ CalledHabit.periodicity = DAILY
    /\ Len(CalledHabit.completion_records) = 1
    /\ DateOf(EffectiveAsOf) - DateOf(CalledHabit.completion_records[1].timestamp) >= 7
    /\ call.result = 1

-----------------------------------------------------------------------------
(* C14 *)

\* C14: a call of calculate_current_streak or calculate_longest_streak on a
\* habit whose periodicity is neither DAILY nor WEEKLY fails with an error:
\* it returns no streak length, neither the daily nor the weekly one.
\* (Stated for habits that have completions, where the calculators reach
\* their branch on the periodicity.)
C14_UnsupportedPeriodicityFails ==
    (/\ call.op \in StreakOps
     /\ CalledHabit.periodicity \notin {DAILY, WEEKLY}
     /\ CalledHabit.completion_records # <<>>)
        => call.result \notin Nat

-----------------------------------------------------------------------------
(* C15 *)

\* C15: for a non-empty habit list get_overall_longest_streak returns the
\* name, id, periodicity and streak length of a habit whose
\* calculate_longest_streak is maximal over the list, and of the first such
\* habit in input order when several share the maximum.
C15_OverallLongestIsFirstMaximal ==
    (call.op = "get_overall_longest_streak" /\ habits # <<>>) =>
        \E i \in 1 .. Len(habits) :
            /\ call.result.habit_name = habits[i].name
            /\ call.result.habit_id = habits[i].habit_id
            /\ call.result.periodicity = habits[i].periodicity
            /\ call.result.streak_length = calculate_longest_streak(habits[i])
            /\ \A j \in 1 .. Len(habits) :
                  calculate_longest_streak(habits[j]) <= calculate_longest_streak(habits[i])
            /\ \A j \in 1 .. i - 1 :
                  calculate_longest_streak(habits[j]) < calculate_longest_streak(habits[i])

\* two habits share the longest streak 2 and the first one was returned
C15_Witness ==
    /\ call.op = "get_overall_longest_streak"
    /\ Len(habits) = 2
    /\ calculate_longest_streak(habits[1]) = 2
    /\ calculate_longest_streak(habits[2]) = 2
    /\ call.result.habit_name = habits[1].name

-----------------------------------------------------------------------------
(* C16 *)

\* C16: with an empty habit list get_overall_longest_streak returns the
\* sentinel record (habit_name None, streak_length 0, periodicity None) and
\* get_habits_by_periodicity, get_inactive_habits and
\* get_habits_streak_summary each return an empty list.
C16_EmptyListGivesNeutralValues ==
    habits = <<>> =>
        /\ call.op = "get_overall_longest_streak" =>
              call.result = [habit_name |-> "None", streak_length |-> 0,
                             periodicity |-> "None"]
        /\ call.op \in {"get_habits_by_periodicity", "get_inactive_habits",
                        "get_habits_streak_summary"} => call.result = <<>>

\* the overall longest streak of no habits has been asked for
C16_Witness ==
    /\ habits = <<>>
    /\ call.op = "get_overall_longest_streak"
    /\ call.result.streak_length = 0

-----------------------------------------------------------------------------
(* C17 *)

\* every completion of the habit is earlier than the cutoff; true of a habit
\* without completions
AllCompletionsBefore(habit, cutoff) ==
    \A i \in 1 .. Len(habit.completion_records) :
        habit.completion_records[i].timestamp < cutoff

\* C17: get_inactive_habits(habits, months) returns, in input order, exactly
\* the habits that have no completion or whose most recent completion is
\* earlier than the current time minus months x 30 days.
C17_InactiveIsNoCompletionSinceCutoff ==
    call.op = "get_inactive_habits" =>
        call.result = SelectSeq(habits,
                        LAMBDA h : AllCompletionsBefore(h, now - call.arg * 30 * HoursPerDay))

\* months = 1: of two habits, the one last completed 60 days ago is returned
\* and the one completed today is not
C17_Witness ==
    /\ call.op = "get_inactive_habits"
    /\ call.arg = 1
    /\ Len(habits) = 2
    /\ habits[1].completion_records = <<AggLater>>
    /\ DateOf(AggLater.timestamp) = DateOf(now)
    /\ habits[2].completion_records = <<AggOld>>
    /\ AggOld.timestamp = MinusDays(now, 60)
    /\ call.result = <<habits[2]>>
-----------------------------------------------------------------------------
(* C18 *)

\* a mood score is absent or within 1..10
ValidMood(mood_score) ==
    mood_score = <<>> \/ (1 <= mood_score[1] /\ mood_score[1] <= 10)

\* the completions of the habit objects a call returned
ReturnedCompletions ==
    IF call.op = "get_all_habits" /\ call.raised = ""
    THEN UNION {{call.result[k].completion_records[i] :
                   i \in 1 .. Len(call.result[k].completion_records)} :
                k \in 1 .. Len(call.result)}
    ELSE {}

\* C18: Completion(timestamp, notes, mood) raises ValueError exactly when the
\* mood is present and outside 1..10 or the timestamp is later than the
\* current time, and otherwise carries exactly the given timestamp, note and
\* mood; no completion stored by check_off_habit or loaded from storage has
\* an out-of-range mood or a timestamp in the future.
C18_CompletionIsValidated ==
    /\ call.op = "Completion" =>
          /\ call.raised \in {"", "ValueError"}
          /\ call.raised = "ValueError" <=>
                (~ValidMood(call.arg.mood_score) \/ call.arg.timestamp > now)
          /\ call.raised = "" =>
                /\ call.result.timestamp = call.arg.timestamp
                /\ call.result.notes = call.arg.notes
                /\ call.result.mood_score = call.arg.mood_score
    /\ \A i \in 1 .. Len(db_completions) :
          /\ ValidMood(db_completions[i].mood_score)
          /\ fromisoformat(db_completions[i].timestamp) <= now
    /\ \A c \in ReturnedCompletions : ValidMood(c.mood_score) /\ c.timestamp <= now

\* a completion dated at the current moment with mood 1 has been constructed
\* while the tables hold a completion that check_off_habit stored
C18_Witness ==
    /\ call.op = "Completion"
    /\ call.arg.timestamp = now
    /\ call.arg.mood_score = <<1>>
    /\ call.raised = ""
    /\ db_completions # <<>>

-----------------------------------------------------------------------------
(* C19 *)

\* the habit row exists and belongs to the current user
OwnedByCurrentUser(habit_id) ==
    /\ habit_id \in 1 .. Len(db_habits)
    /\ db_habits[habit_id].user_id = current_user_id

\* the stored completion times of a habit
StoredTimes(habit_id) ==
    {fromisoformat(db_completions[i].timestamp) :
       i \in {j \in 1 .. Len(db_completions) : db_completions[j].habit_id = habit_id}}

\* the habit has no stored completion in the period of the current time
DueNow(habit_id) ==
    IF db_habits[habit_id].periodicity = DAILY
    THEN \A t \in StoredTimes(habit_id) : DateOf(t) # DateOf(now)
    ELSE \A t \in StoredTimes(habit_id) : IsoWeekOf(t) # IsoWeekOf(now)

\* C19: check_off_habit(habit_id, notes, mood) with a valid mood returns True
\* and adds exactly one completion (current timestamp, given notes and mood,
\* for that habit) iff the habit exists, belongs to the current user, is
\* active and is due at the current time; otherwise it returns False and
\* the stored completions are unchanged.
C19_CheckOffIffOwnedActiveDue ==
    [][(call'.op = "check_off_habit" /\ ValidMood(call'.arg.mood_score)) =>
         IF /\ OwnedByCurrentUser(call'.index)
            /\ db_habits[call'.index].is_active
            /\ DueNow(call'.index)
         THEN /\ call'.raised = "" /\ call'.result = TRUE
              /\ Len(db_completions') = Len(db_completions) + 1
              /\ SubSeq(db_completions', 1, Len(db_completions)) = db_completions
              /\ LET added == db_completions'[Len(db_completions')]
                 IN  /\ added.habit_id = call'.index
                     /\ fromisoformat(added.timestamp) = now
                     /\ added.notes = call'.arg.notes
                     /\ added.mood_score = call'.arg.mood_score
         ELSE /\ call'.raised = "" /\ call'.result = FALSE
              /\ db_completions' = db_completions]_vars

\* a second check-off of the current user's active daily habit on the day of
\* its first one has returned False
C19_Witness ==
    /\ call.op = "check_off_habit"
    /\ ValidMood(call.arg.mood_score)
    /\ OwnedByCurrentUser(call.index)
    /\ db_habits[call.index].is_active
    /\ db_habits[call.index].periodicity = DAILY
    /\ \E t \in StoredTimes(call.index) : DateOf(t) = DateOf(now) /\ t < now
    /\ call.result = FALSE

-----------------------------------------------------------------------------
(* C20 *)

\* the ids of the habit objects get_all_habits returned
ReturnedIds == {call.result[k].habit_id : k \in 1 .. Len(call.result)}

\* the rows of table completions that belong to a habit, in insertion order
StoredRows(rows, habit_id) == SelectSeq(rows, LAMBDA r : r.habit_id = habit_id)

\* C20: delete_habit on a habit of the current user returns True and changes
\* only the is_active flag of that habit to false; afterwards the habit is
\* absent from get_all_habits(active_only=True) and present in
\* get_all_habits(active_only=False); an inactive habit stays inactive and
\* gains no completions in every later step of the manager.
C20_DeleteIsSoftAndPermanent ==
    /\ [][(call'.op = "delete_habit" /\ OwnedByCurrentUser(call'.index)) =>
            /\ call'.raised = "" /\ call'.result = TRUE
            /\ db_habits' = [db_habits EXCEPT ![call'.index].is_active = FALSE]
            /\ db_completions' = db_completions]_vars
    /\ [][\A id \in 1 .. Len(db_habits) :
            ~db_habits[id].is_active =>
                /\ db_habits'[id] = db_habits[id]
                /\ StoredRows(db_completions', id) = StoredRows(db_completions, id)]_vars
    /\ [](call.op = "get_all_habits" /\ call.raised = "" =>
            ReturnedIds = {id \in 1 .. Len(db_habits) :
                             /\ db_habits[id].user_id = current_user_id
                             /\ call.arg => db_habits[id].is_active})

\* the current user's deleted habit, which has a stored completion, is
\* missing from get_all_habits(active_only=True)
C20_Witness ==
    /\ call.op = "get_all_habits"
    /\ call.raised = ""
    /\ call.arg = TRUE
    /\ call.result = <<>>
    /\ \E id \in 1 .. Len(db_habits) :
          /\ db_habits[id].user_id = current_user_id
          /\ ~db_habits[id].is_active
          /\ StoredRows(db_completions, id) # <<>>

-----------------------------------------------------------------------------
(* C21 *)

\* the name is empty or consists of blanks only
IsBlank(name) == \A i \in 1 .. Len(name) : name[i] = " "

\* C21: create_habit raises ValueError and stores no habit when no current
\* user has been set or when the name is empty or consists only of
\* whitespace, and get_all_habits raises ValueError when no current user has
\* been set; in each case the stored habits of every user are unchanged.
C21_InvalidCallsRaiseAndStoreNothing ==
    [][/\ (/\ call'.op = "create_habit"
            /\ (current_user_id = NoUser \/ IsBlank(call'.arg.name))) =>
              /\ call'.raised = "ValueError"
              /\ db_habits' = db_habits
              /\ db_completions' = db_completions
       /\ (call'.op = "get_all_habits" /\ current_user_id = NoUser) =>
              /\ call'.raised = "ValueError"
              /\ db_habits' = db_habits
              /\ db_completions' = db_completions]_vars

\* a logged-in user who already has a habit asked for one with a blank name
C21_Witness ==
    /\ call.op = "create_habit"
    /\ current_user_id # NoUser
    /\ call.arg.name = <<" ">>
    /\ call.raised = "ValueError"
    /\ \E i \in 1 .. Len(db_habits) : db_habits[i].user_id = current_user_id

-----------------------------------------------------------------------------
(* C22 *)

\* t falls in a period later than the period of the reference date
InLaterPeriod(habit, t, as_of_date) ==
    IF habit.periodicity = DAILY
    THEN DateOf(t) > DateOf(as_of_date)
    ELSE WeekLess(IsoWeekOf(as_of_date), IsoWeekOf(t))

\* C22: the current streak counts periods ending at or before the reference
\* date only: adding a completion that falls in a period later than the
\* as-of period does not change calculate_current_streak(habit, as_of).
C22_LaterCompletionsKeepCurrentStreak ==
    (/\ call.op = "calculate_current_streak"
     /\ CalledHabit.periodicity \in {DAILY, WEEKLY}) =>
        \A t \in Timestamps :
            InLaterPeriod(CalledHabit, t, EffectiveAsOf) =>
                calculate_current_streak(WithCompletion(CalledHabit, t), call.arg, now)
                    = call.result

-----------------------------------------------------------------------------
(* C23 *)

\* the habit with its completion list in the order q, a permutation of its
\* indices
Reordered(habit, q) ==
    [habit EXCEPT !.completion_records =
        [k \in 1 .. Len(habit.completion_records) |-> habit.completion_records[q[k]]]]

OrderOps ==
    {"calculate_current_streak", "calculate_longest_streak", "is_due_on",
     "get_last_completion_date"}

\* what the operation of the last call returns on another habit object
SameCallOn(habit) ==
    CASE call.op = "calculate_current_streak" ->
             calculate_current_streak(habit, call.arg, now)
      [] call.op = "calculate_longest_streak" -> calculate_longest_streak(habit)
      [] call.op = "is_due_on" -> is_due_on(habit, call.arg)
      [] call.op = "get_last_completion_date" -> get_last_completion_date(habit)

\* C23: results do not depend on the order in which storage hands over
\* completions: calculate_current_streak, calculate_longest_streak, is_due_on
\* and get_last_completion_date return the same value for every permutation
\* of the same completion list.
C23_OrderOfCompletionsIsIrrelevant ==
    call.op \in OrderOps =>
        \A q \in Permutations(1 .. Len(CalledHabit.completion_records)) :
            SameCallOn(Reordered(CalledHabit, q)) = call.result

\* the current streak 2 of a weekly habit was computed from three completions
\* stored neither oldest first nor newest first
C23_Witness ==
    /\ call.op = "calculate_current_streak"
    /\ CalledHabit.periodicity = WEEKLY
    /\ Len(CalledHabit.completion_records) = 3
    /\ CalledHabit.completion_records[1].timestamp > CalledHabit.completion_records[2].timestamp
    /\ CalledHabit.completion_records[2].timestamp < CalledHabit.completion_records[3].timestamp
    /\ call.arg # <<>>
    /\ call.result = 2

-----------------------------------------------------------------------------
(* C24 *)

\* the number of the last ISO week of a year: the week of December 28th
LastIsoWeek(year) == IsoCalendarOfDate(Jan1(year + 1) - 4)[2]

\* C24: in both streak calculators the only adjacency across a year boundary
\* is (Y, 52) followed by (Y+1, 1).  For a year Y that has 53 ISO weeks,
\* completions in week 53 of Y and week 1 of Y+1 are not counted as
\* consecutive (current streak as of week 1 of Y+1 is 1 and longest streak is
\* 1), while one completion in week 52 of Y and one in week 1 of Y+1 are
\* counted as consecutive (both streaks are 2) although week 53 lies between
\* them.
C24_Week53IsNeverAdjacent ==
    \A y \in Years :
        (/\ call.op \in StreakOps
         /\ CalledHabit.periodicity = WEEKLY
         /\ LastIsoWeek(y) = 53
         /\ (call.op = "calculate_current_streak" =>
                IsoWeekOf(EffectiveAsOf) = <<y + 1, 1>>)) =>
            /\ CompletionWeeks(CalledHabit) = {<<y, 53>>, <<y + 1, 1>>} => call.result = 1
            /\ OnlyWeek52AndWeek1(CalledHabit, y) => call.result = 2

\* completions in 2020-W52 and 2021-W01 only, current streak 2 as of 2021-W01
C24_Witness ==
    /\ call.op = "calculate_current_streak"
    /\ CalledHabit.periodicity = WEEKLY
    /\ LastIsoWeek(2020) = 53
    /\ OnlyWeek52AndWeek1(CalledHabit, 2020)
    /\ call.arg # <<>>
    /\ IsoWeekOf(EffectiveAsOf) = <<2021, 1>>
    /\ call.result = 2

-----------------------------------------------------------------------------
(* C25 *)

\* C25: a check-off with a mood score outside 1..10 is rejected by raising
\* the validation error to the caller, not by returning False:
\* BaseHabit.check_off and HabitManager.check_off_habit (on an existing,
\* owned, active, due habit) both raise ValueError, and neither the habit's
\* in-memory completion list nor the stored completions change.
C25_InvalidMoodRaises ==
    [][/\ (call'.op = "check_off" /\ ~ValidMood(call'.arg.mood_score)) =>
              /\ call'.raised = "ValueError"
              /\ habits' = habits
              /\ db_completions' = db_completions
       /\ (/\ call'.op = "check_off_habit"
            /\ ~ValidMood(call'.arg.mood_score)
            /\ OwnedByCurrentUser(call'.index)
            /\ db_habits[call'.index].is_active
            /\ DueNow(call'.index)) =>
              /\ call'.raised = "ValueError"
              /\ habits' = habits
              /\ db_completions' = db_completions]_vars

\* check_off_habit with mood 11 has raised on the current user's active
\* habit, which is due and was completed on an earlier day, while the habit
\* object in memory holds a completion too
C25_Witness ==
    /\ call.op = "check_off_habit"
    /\ call.arg.mood_score = <<11>>
    /\ call.raised = "ValueError"
    /\ OwnedByCurrentUser(call.index)
    /\ db_habits[call.index].is_active
    /\ DueNow(call.index)
    /\ StoredTimes(call.index) # {}
    /\ habits[1].completion_records # <<>>

-----------------------------------------------------------------------------
(* C26 *)

\* the reference date is not earlier than the date of any completion
NotBeforeLatestCompletion(habit, as_of_date) ==
    \A i \in 1 .. Len(habit.completion_records) :
        DateOf(habit.completion_records[i].timestamp) <= DateOf(as_of_date)

\* C26: for every habit and every as-of date not earlier than the habit's
\* latest completion, calculate_current_streak(habit, as_of) is at most
\* calculate_longest_streak(habit), and both are at most the number of
\* distinct periods (days or ISO weeks) that contain a completion.
C26_CurrentAtMostLongestAtMostPeriods ==
    (/\ call.op = "calculate_current_streak"
     /\ CalledHabit.periodicity \in {DAILY, WEEKLY}
     /\ NotBeforeLatestCompletion(CalledHabit, EffectiveAsOf)) =>
        /\ call.result <= calculate_longest_streak(CalledHabit)
        /\ calculate_longest_streak(CalledHabit)
              <= Cardinality(CompletionPeriods(CalledHabit))

-----------------------------------------------------------------------------
(* C27 *)

\* the period a stored completion of a habit falls in: its calendar date
\* for a daily habit, its ISO (year, week) for a weekly one
StoredPeriod(habit_id, row) ==
    IF db_habits[habit_id].periodicity = DAILY
    THEN <<DateOf(fromisoformat(row.timestamp))>>
    ELSE IsoWeekOf(fromisoformat(row.timestamp))

\* C27: after any sequence of create_habit, check_off_habit and delete_habit
\* calls issued one at a time with a non-decreasing clock, every daily habit
\* has at most one stored completion per calendar day and every weekly habit
\* has at most one stored completion per ISO (year, week).
C27_OneStoredCompletionPerPeriod ==
    \A i, j \in 1 .. Len(db_completions) :
        (/\ i # j
         /\ db_completions[i].habit_id = db_completions[j].habit_id) =>
            StoredPeriod(db_completions[i].habit_id, db_completions[i])
                # StoredPeriod(db_completions[j].habit_id, db_completions[j])

\* a daily habit checked off on two days, and refused a second check-off on
\* the second day
C27_Witness ==
    /\ call.op = "check_off_habit"
    /\ call.raised = ""
    /\ call.result = FALSE
    /\ OwnedByCurrentUser(call.index)
    /\ db_habits[call.index].is_active
    /\ db_habits[call.index].periodicity = DAILY
    /\ Cardinality(StoredTimes(call.index)) = 2
    /\ Len(StoredRows(db_completions, call.index)) = 2

-----------------------------------------------------------------------------
(* C28 *)

\* the operations of the manager that take a habit id or read the tables
IsolatedOps ==
    {"get_all_habits", "get_habit_by_id", "delete_habit", "check_off_habit",
     "get_habit_completions", "get_user_completions"}

\* the ids of the habits whose data the last call handed to its caller:
\* the habits returned, and the habits of the completions returned
HandedOut ==
    IF call.raised # "" THEN {}
    ELSE CASE call.op = "get_all_habits" ->
                  {call.result[k].habit_id : k \in 1 .. Len(call.result)}
           [] call.op = "get_habit_by_id" ->
                  {call.result[k].habit_id : k \in 1 .. Len(call.result)}
           [] call.op = "get_habit_completions" ->
                  IF call.result = <<>> THEN {} ELSE {call.index}
           [] call.op = "get_user_completions" ->
                  {call.result[k].habit_id : k \in 1 .. Len(call.result)}
           [] OTHER -> {}

\* C28: user isolation: no HabitManager operation (get_all_habits,
\* get_habit_by_id, delete_habit, check_off_habit, get_habit_completions,
\* get_user_completions) returns a habit or completion that belongs to a
\* user other than the current user, and none modifies another user's habit
\* or completions, whatever habit id is supplied.
C28_UserIsolation ==
    /\ [](call.op \in IsolatedOps =>
            \A id \in HandedOut : db_habits[id].user_id = current_user_id)
    /\ [][call'.op \in IsolatedOps =>
            \A id \in 1 .. Len(db_habits) :
                db_habits[id].user_id # current_user_id =>
                    /\ db_habits'[id] = db_habits[id]
                    /\ StoredRows(db_completions', id) = StoredRows(db_completions, id)]_vars

-----------------------------------------------------------------------------
(* C29 *)

\* a name without the blanks around it: from its first to its last
\* character that is not a blank
Trimmed(name) ==
    LET inked == {i \in 1 .. Len(name) : name[i] # " "}
    IN  IF inked = {} THEN <<>>
        ELSE SubSeq(name, CHOOSE i \in inked : \A j \in inked : i <= j,
                          CHOOSE i \in inked : \A j \in inked : j <= i)

\* the current user has a habit of that name, active or not
CurrentUserHasName(name) ==
    \E i \in 1 .. Len(db_habits) :
        db_habits[i].user_id = current_user_id /\ db_habits[i].name = name

\* C29: in every reachable state the habit names of one user are pairwise
\* distinct, counting soft-deleted habits: create_habit with a name that,
\* after trimming surrounding whitespace, equals the name of any existing
\* habit of the current user (active or inactive) fails with an error and
\* stores nothing, while different users may hold habits with the same name
\* (a name that only other users hold is accepted).
C29_NamesUniquePerUser ==
    /\ [](\A i, j \in 1 .. Len(db_habits) :
            (i # j /\ db_habits[i].user_id = db_habits[j].user_id) =>
                db_habits[i].name # db_habits[j].name)
    /\ [][(call'.op = "create_habit" /\ current_user_id # NoUser
                                      /\ ~IsBlank(call'.arg.name)) =>
            IF CurrentUserHasName(Trimmed(call'.arg.name))
            THEN call'.raised # "" /\ db_habits' = db_habits
            ELSE /\ call'.raised = ""
                 /\ db_habits' = Append(db_habits, db_habits'[Len(db_habits')])
                 /\ db_habits'[Len(db_habits')].user_id = current_user_id
                 /\ db_habits'[Len(db_habits')].name = Trimmed(call'.arg.name)]_vars

\* two users hold a habit named "a"; the current user, whose habit "a" is
\* deleted, asked for a habit "a " and got an error
C29_Witness ==
    /\ call.op = "create_habit"
    /\ call.arg.name = <<"a", " ">>
    /\ call.raised = "IntegrityError"
    /\ \E i, j \in 1 .. Len(db_habits) :
          /\ db_habits[i].user_id = current_user_id
          /\ db_habits[i].name = <<"a">>
          /\ ~db_habits[i].is_active
          /\ db_habits[j].user_id # current_user_id
          /\ db_habits[j].name = <<"a">>

-----------------------------------------------------------------------------
(* C30 *)

\* the period of a habit that a moment falls in
PeriodOf(habit_id, ts) ==
    IF db_habits[habit_id].periodicity = DAILY THEN <<DateOf(ts)>> ELSE IsoWeekOf(ts)

\* the last check_off_habit call of the manager returned True
ReturnedTrue(m) == managers[m].pc = "idle" /\ managers[m].result = <<TRUE>>

\* C30: when two check_off_habit invocations for the same active, due habit
\* are interleaved (each issued by its own HabitManager on the same
\* database, both within the same period), at most one of them returns True
\* and at most one completion is stored for that habit in that period.
C30_InterleavedCheckOffsStoreOnce ==
    /\ \A m1, m2 \in Managers :
          (/\ m1 # m2
           /\ ReturnedTrue(m1) /\ ReturnedTrue(m2)
           /\ managers[m1].habit_id = managers[m2].habit_id) =>
              PeriodOf(managers[m1].habit_id, managers[m1].completion[1].timestamp)
                # PeriodOf(managers[m2].habit_id, managers[m2].completion[1].timestamp)
    /\ \A i, j \in 1 .. Len(db_completions) :
          (i # j /\ db_completions[i].habit_id = db_completions[j].habit_id) =>
              PeriodOf(db_completions[i].habit_id,
                       fromisoformat(db_completions[i].timestamp))
                # PeriodOf(db_completions[j].habit_id,
                           fromisoformat(db_completions[j].timestamp))
====
